---- MODULE Spec2Model ----
(***************************************************************************)
(* A model of the entity lifecycle core of pygame-asteroids: HookList      *)
(* (hook_list.py), GameObject / GameObjectSystem (game_object.py and the   *)
(* module-level variant game_objects.py) and GameObjectCoroutine           *)
(* (game_object_coroutine.py).                                             *)
(*                                                                         *)
(* The program is single threaded; calls nest synchronously.  The model    *)
(* keeps the Python call stack in `stack`: one step of the model is one    *)
(* top-level API call (up to the point where it starts to run hooks), one  *)
(* hook invocation, or one return.  While the stack is not empty only the  *)
(* top frame can step, exactly as in the program.                          *)
(***************************************************************************)
EXTENDS Integers, Sequences, FiniteSets, Bags, TLC

\* Bounds of the model.
MaxObjects == 2     \* GameObjects ever created
MaxSubs == 2        \* HookList.append calls ever made (entity studies)
MaxHooks == 3       \* HookList.append calls ever made (the HookList study)
MaxPasses == 2      \* GameObjectSystem.update passes ever run
MaxSlices == 3      \* slices the generator of the coroutine ever runs
MaxWaits == 2       \* wait instructions the generator ever yields
MaxCoSubs == 3      \* HookList.append calls ever made (the coroutine study)
MaxTime == 1        \* pygame.time.get_ticks() and delay_ms never exceed this
MaxEvents == 3      \* GameTime.run_after_delay calls ever made
MaxColliders == 5   \* colliders in the list given to Quadtree()
MaxDepth == 2       \* _QuadtreeNode max_depth (the program passes 10)
MaxSteps == 2       \* physics steps taken on one world
max_load == 5       \* _QuadtreeNode._max_load

None == 0
Objects == 1..MaxObjects
HookKinds == {"update", "destroy"}

VARIABLES
    created,            \* number of GameObjects created so far (ids 1..created)
    live,               \* GameObjectSystem._game_objects (game_object.py)
    liveM,              \* _game_objects of the module variant (game_objects.py)
    isDestroyed,        \* _GameObject._is_destroyed
    listeners,          \* HookList.__listeners of _update_hooks and _destroy_hooks
    closures,           \* the unsubscribe closures HookList.append returned
    removeParentHook,   \* _GameObject._remove_parent_destroy_hook (0 is None)
    error,              \* the exception that ended the program, or "none"
    stack,              \* the call stack: frames of destroy(), run_hooks(), update()
    passes,             \* history: number of update passes started
    parentOf,           \* history: the argument of the last set_parent call
    runs,               \* history: how often a GameObject's destroy hooks were run
    bornIn,             \* history: the update pass during which a GameObject was created (0: none)
    co,                 \* the fields of the one GameObjectCoroutine
    resumes,            \* the do_resume closures _ResumeLater.apply created
    events,             \* GameTime._sorted_scheduled_events
    now,                \* pygame.time.get_ticks()
    sched,              \* history: the run_after_delay calls and what became of them
    quad,               \* the colliders given to Quadtree(), the tree, the pairs it returned
    phys                \* the physics systems: bodies, colliders, hooks and what a step did

codeVars == <<created, live, liveM, isDestroyed, listeners, closures, removeParentHook, error>>
histVars == <<passes, parentOf, runs, bornIn>>
coVars == <<co, resumes, events, now, sched>>
vars == <<codeVars, stack, histVars, coVars, quad, phys>>

-----------------------------------------------------------------------------
\* Callables.  A callback value is the identity of a Python callable: two
\* subscriptions of the same value compare equal under list.remove.

UserFn(n) == [kind |-> "user", arg |-> n]         \* a hook that changes nothing
DestroyFn(e) == [kind |-> "destroy", arg |-> e]   \* the bound method e.destroy
AppendFn == [kind |-> "append", arg |-> 0]        \* a hook that appends UserFn(1) to its own list
UnsubFn(s) == [kind |-> "unsub", arg |-> s]       \* a hook that calls unsubscriber s (once it exists)
NewFn == [kind |-> "new", arg |-> 0]              \* a hook that calls new_object()
CoFn == [kind |-> "co", arg |-> 0]                \* the bound method coroutine._update_hook
StartFn == [kind |-> "start", arg |-> 0]          \* a hook that calls coroutine.start()
SuspendFn == [kind |-> "suspend", arg |-> 0]      \* a hook that calls coroutine.suspend()
ResumeFn(r) == [kind |-> "resume", arg |-> r]     \* a hook that calls do_resume r if the user has it
AgainFn(d) == [kind |-> "again", arg |-> d]       \* a timer callback that schedules itself again after d


-----------------------------------------------------------------------------
\* HookList (hook_list.py) as operations on a store [ls, cl, err].

Store == [ls |-> listeners, cl |-> closures, err |-> error]

\* HookList.append: the list grows at the end; the closure captures the hook.
\* `by` is history: the GameObject whose set_parent made the subscription;
\* so is `late`: the GameObject of the list was already destroyed.
HookAppend(st, e, k, cb, by) ==
    LET s == Len(st.cl) + 1
    IN [st EXCEPT !.ls[e][k] = Append(@, [cb |-> cb, sub |-> s]),
                  !.cl = Append(@, [obj |-> e, kind |-> k, cb |-> cb,
                                    did |-> FALSE, by |-> by, late |-> isDestroyed[e]])]

\* list.remove(hook): removes the first element equal to hook.
FirstIndex(seq, cb) ==
    IF \E i \in 1..Len(seq) : seq[i].cb = cb
    THEN CHOOSE i \in 1..Len(seq) :
            /\ seq[i].cb = cb
            /\ \A j \in 1..(i - 1) : seq[j].cb # cb
    ELSE 0

RemoveAt(seq, i) == [j \in 1..(Len(seq) - 1) |-> IF j < i THEN seq[j] ELSE seq[j + 1]]

\* The closure `unsubscribe` of HookList.append.
HookUnsubscribe(st, s) ==
    LET c == st.cl[s]
        i == FirstIndex(st.ls[c.obj][c.kind], c.cb)
    IN IF c.did THEN st
       ELSE IF i = 0
            THEN [st EXCEPT !.cl[s].did = TRUE, !.err = "ValueError"]
            ELSE [st EXCEPT !.cl[s].did = TRUE,
                            !.ls[c.obj][c.kind] = RemoveAt(@, i)]

SetStore(st) ==
    /\ listeners' = st.ls
    /\ closures' = st.cl
    /\ error' = st.err

-----------------------------------------------------------------------------
\* Frames of the call stack.

\* run_hooks of a GameObject's hook list: `snap` is the local `listeners`, the
\* copy made at line 51; `i` is the loop position.  op "destroy" is the frame
\* of _GameObject.destroy running its destroy hooks, op "run" the frame of
\* _GameObject.update running its update hooks.
\* History fields: `co0` the coroutine and `clock` the time when the run
\* began, `start` the list
\* when the run began, `invoked` the
\* callbacks invoked so far, `kids` the GameObjects whose set_parent(e) was in
\* effect at the call, `busy` the GameObjects whose destroy() was already running.
HookFrame(op, e, kids, busy) ==
    [op |-> op, e |-> e,
     snap |-> listeners[e][IF op = "destroy" THEN "destroy" ELSE "update"],
     i |-> 1, todo |-> {},
     start |-> listeners[e][IF op = "destroy" THEN "destroy" ELSE "update"],
     invoked |-> <<>>, kids |-> kids, busy |-> busy, done |-> {}, co0 |-> co,
     clock |-> now]

\* GameObjectSystem.update: `todo` is what is left of the copy `game_objects`.
\* History fields: `start` is unused, `kids` the live set when the pass began,
\* `done` the GameObjects that received update() in this pass.
PassFrame ==
    [op |-> "update", e |-> None, snap |-> <<>>, i |-> 1, todo |-> live,
     start |-> <<>>, invoked |-> <<>>, kids |-> live, busy |-> {}, done |-> {},
     co0 |-> co, clock |-> now]

\* GameTime.run_callbacks: `i` is 1 while the loop runs and 2 once it reached
\* the break of line 31.  History fields: `invoked` the events fired so far,
\* `clock` the time when the call began.
PumpFrame ==
    [op |-> "pump", e |-> None, snap |-> <<>>, i |-> 1, todo |-> {},
     start |-> <<>>, invoked |-> <<>>, kids |-> {}, busy |-> {}, done |-> {},
     co0 |-> co, clock |-> now]

Top == stack[Len(stack)]
Idle == stack = <<>> /\ error = "none"
Running == stack # <<>> /\ error = "none"

FrameKind(f) == IF f.op = "destroy" THEN "destroy" ELSE "update"

\* The list run_hooks iterates: the copy.
RunListLive(f) == listeners[f.e][FrameKind(f)]
RunList(f) == f.snap

\* The set GameObjectSystem.update iterates: the copy.
PassPendingLive(f) == live \ f.done
PassPending(f) == f.todo

\* set_parent(p) of c is in effect: c holds an unsubscriber that was not called.
Children(p) ==
    {c \in 1..created :
        /\ removeParentHook[c] # None
        /\ closures[removeParentHook[c]].obj = p
        /\ ~closures[removeParentHook[c]].did}

\* GameObjects whose destroy() is on the call stack.
Destroying == {stack[n].e : n \in {m \in 1..Len(stack) : stack[m].op = "destroy"}}

-----------------------------------------------------------------------------
\* _GameObject.destroy, called with `stk` the stack of its caller.

\* The two variants of the entity module differ in one place: game_object.py
\* discards the object before its destroy hooks run (line 112), game_objects.py
\* after them (line 105).  Nothing else reads the set while a call runs, so the
\* model runs both side by side on the same calls, `live` and `liveM`.

DestroyGuardOff(e) == FALSE
DestroyGuard(e) == isDestroyed[e]

\* A GameObject without destroy hooks is through at once; no frame is kept
\* for a run_hooks call that has nothing to run.
DestroyCall(e, stk) ==
    IF DestroyGuard(e)
    THEN /\ stack' = stk
         /\ UNCHANGED <<live, liveM, isDestroyed, runs>>
    ELSE /\ isDestroyed' = [isDestroyed EXCEPT ![e] = TRUE]
         /\ runs' = [runs EXCEPT ![e] = IF @ < 2 THEN @ + 1 ELSE @]
         /\ IF listeners[e]["destroy"] = <<>>
            THEN /\ live' = live \ {e}
                 /\ liveM' = liveM \ {e}
                 /\ stack' = stk
            ELSE /\ live' = live \ {e}
                 /\ liveM' = liveM
                 /\ stack' = Append(stk, HookFrame("destroy", e, Children(e), Destroying))

-----------------------------------------------------------------------------
\* GameObjectCoroutine (game_object_coroutine.py) and GameTime (game_time.py).
\* The calls below run no hooks, so each is one step; they are written as
\* functions on a world [st, co, rs, ev]: the HookList store, the coroutine,
\* the do_resume closures and the scheduled events.

\* GameObjectCoroutine.__init__, attached to the first GameObject.
\* `gen` names the generator the coroutine was constructed with;
\* `finished` is the state of the generator object: it returned or raised,
\* and next() or send() now raise StopIteration without running anything.
\* History fields: `steps` counts the slices of the generator that were run,
\* `started` says that start() was called, `wait` is the do_resume closure of
\* the wait instruction that was applied last, `raised` counts the exceptions
\* that left the coroutine, `raisedAt` is `steps` when the first one did,
\* `lastCall` is the one of start() and suspend() that was called last.
NewCoroutine(gen) ==
    [obj |-> 1, gen |-> gen, isSuspended |-> TRUE, isYielding |-> FALSE, isDone |-> FALSE,
     didStartOnce |-> FALSE, removeUpdateHook |-> None, finished |-> FALSE,
     steps |-> 0, started |-> FALSE, wait |-> None, raised |-> 0, raisedAt |-> 0,
     lastCall |-> "none"]

World == [st |-> Store, co |-> co, rs |-> resumes, ev |-> events, sc |-> sched]

\* GameTime.run_after_delay: the event holds its time and its callback.  `id`
\* is the identity of the event object; sched[id] is history: the clock at
\* the call, the delay, how often the event was fired and when first.
RunAfterDelay(w, d, cb) ==
    LET id == Len(w.sc) + 1
    IN [w EXCEPT !.ev = @ \cup {[time |-> now + d, cb |-> cb, id |-> id]},
                 !.sc = Append(@, [at |-> now, delay |-> d, fired |-> 0, firedAt |-> 0])]

\* What a slice of the generator ends with: `yield None`, a yielded
\* resume_later whose continuation keeps the resume callback for later or
\* calls it at once, a yielded resume_after, the generator's return, or an
\* exception.
Delays == {0, MaxTime}
Outcomes ==
    {[kind |-> k, delay |-> 0] : k \in {"frame", "later", "sync", "stop", "raise"}}
        \cup {[kind |-> "after", delay |-> d] : d \in Delays}

\* The generators of the studies: one whose wait instructions are
\* resume_later, one whose wait instructions are resume_after.
GenOutcomes(c) ==
    IF c.gen = "after"
    THEN {out \in Outcomes : out.kind \in {"frame", "after", "stop"}}
    ELSE {out \in Outcomes : out.kind # "after"}

\* self._game_object.on_update(self._update_hook), lines 62-64 and 111-113
CoSubscribe(w) ==
    LET st2 == HookAppend(w.st, w.co.obj, "update", CoFn, None)
    IN [w EXCEPT !.st = st2, !.co.removeUpdateHook = Len(st2.cl)]

\* self._remove_update_hook()
CoRemoveHook(w) ==
    IF w.co.removeUpdateHook = None
    THEN [w EXCEPT !.st.err = "TypeError"]
    ELSE [w EXCEPT !.st = HookUnsubscribe(w.st, w.co.removeUpdateHook)]

\* GameObjectCoroutine._yield_control
YieldControlKeepHook(w) == [w EXCEPT !.co.isYielding = TRUE]
YieldControl(w) == [CoRemoveHook(w) EXCEPT !.co.isYielding = TRUE]

\* The variant that subscribes whether the coroutine is suspended or not.
ResumeControlAlways(w) == [CoSubscribe(w) EXCEPT !.co.isYielding = FALSE]

\* GameObjectCoroutine._resume_control
ResumeControl(w) ==
    LET w1 == IF ~w.co.isSuspended THEN CoSubscribe(w) ELSE w
    IN [w1 EXCEPT !.co.isYielding = FALSE]

\* The closure do_resume of _ResumeLater.apply.  History fields: `called` says
\* that it was invoked, `kept` that the continuation was the user's (it kept
\* the callback or called it) and not resume_after's (only the timer holds
\* it), `at` and `delay` the clock at the yield and the delay_ms of resume_after.
DidResumeNever(w, r) == FALSE
DidResume(w, r) == w.rs[r].did

DoResume(w, r) ==
    LET w0 == [w EXCEPT !.rs[r].called = TRUE]
    IN IF ~DidResume(w, r)
       THEN [ResumeControl(w0) EXCEPT !.rs[r].did = TRUE]
       ELSE w0

\* A user's hook that calls the resume callback a continuation kept, if any.
UserResume(w, r) ==
    IF r <= Len(w.rs) /\ w.rs[r].kept THEN DoResume(w, r) ELSE w

\* _ResumeLater.apply, with the continuations of resume_later and resume_after.
Apply(w, out) ==
    LET w1 == YieldControl(w)
        r == Len(w1.rs) + 1
        w2 == [w1 EXCEPT !.rs = Append(@, [did |-> FALSE, called |-> FALSE,
                                           kept |-> out.kind # "after",
                                           at |-> IF out.kind = "after" THEN now ELSE 0,
                                           delay |-> out.delay]),
                         !.co.wait = r]
    IN CASE out.kind = "later" -> w2
         [] out.kind = "sync" -> DoResume(w2, r)
         [] out.kind = "after" -> RunAfterDelay(w2, out.delay, ResumeFn(r))

\* _run_and_process_yield, lines 101-103: the slice raised an exception.
OnExceptionNotDone(c) == c
OnException(c) == [c EXCEPT !.isDone = TRUE]

\* GameObjectCoroutine._run_and_process_yield; the exception of line 103 is
\* on its way out while st.err says so.
RunAndProcessYield(w, out) ==
    LET w1 == [w EXCEPT !.co.steps = @ + 1]
    IN CASE w.co.finished -> [w EXCEPT !.co.isDone = TRUE]
         [] out.kind = "frame" -> w1
         [] out.kind = "stop" -> [w1 EXCEPT !.co.isDone = TRUE, !.co.finished = TRUE]
         [] out.kind = "raise" ->
                [w1 EXCEPT !.co = [OnException(@) EXCEPT !.finished = TRUE],
                           !.st.err = "Exception"]
         [] OTHER -> Apply(w1, out)

\* start(), line 67: the first start runs the generator.
FirstRunNever(c) == FALSE
FirstRun(c) == ~c.didStartOnce

\* start(), line 61
StartGuardOff(c) == TRUE
StartGuard(c) == c.isSuspended /\ ~c.isYielding

\* GameObjectCoroutine.start
StartCo(w, out) ==
    IF StartGuard(w.co)
    THEN LET w1 == [CoSubscribe(w) EXCEPT !.co.isSuspended = FALSE,
                                          !.co.started = TRUE,
                                          !.co.lastCall = "start"]
             w2 == RunAndProcessYield(w1, out)
         IN IF FirstRun(w1.co)
            THEN IF w2.st.err = "none"
                 THEN [w2 EXCEPT !.co.didStartOnce = TRUE]
                 ELSE w2
            ELSE w1
    ELSE [w EXCEPT !.co.lastCall = "start"]

\* GameObjectCoroutine.suspend
SuspendCo(w) ==
    IF ~w.co.isSuspended
    THEN [CoRemoveHook(w) EXCEPT !.co.isSuspended = TRUE, !.co.lastCall = "suspend"]
    ELSE [w EXCEPT !.co.lastCall = "suspend"]

\* GameObjectCoroutine._update_hook
UpdateHookCo(w, out) ==
    IF w.co.isDone
    THEN SuspendCo(w)
    ELSE RunAndProcessYield(w, out)

\* run_callbacks, line 26: the time of the event has come.
DueAlways(event) == TRUE
Due(event) == now >= event.time

\* run_callbacks, line 25: heappop takes an event whose time is minimal (which
\* one of several with the same time depends on the shape of the heap).
MinimalAny(ev) == ev
Minimal(ev) == {x \in ev : \A y \in ev : x.time <= y.time}

\* heappop removes the event from the heap.
PopKeeps(ev, event) == ev
Pop(ev, event) == ev \ {event}

\* event.callback(), line 27: a resume callback of the coroutine, a callback
\* that schedules itself again, or one that changes nothing.
Callback(w, cb) ==
    CASE cb.kind = "resume" -> DoResume(w, cb.arg)
      [] cb.kind = "again" -> RunAfterDelay(w, cb.arg, cb)
      [] OTHER -> w

\* Lines 25-27 for an event that is due.
Fire(w, event) ==
    LET w1 == [w EXCEPT !.ev = Pop(@, event),
                        !.sc[event.id].fired = IF @ < 2 THEN @ + 1 ELSE @,
                        !.sc[event.id].firedAt =
                            IF w.sc[event.id].fired = 0 THEN now ELSE @]
    IN Callback(w1, event.cb)

\* The bounds of the coroutine study.
Within(w) ==
    /\ w.co.steps <= MaxSlices
    /\ Len(w.rs) <= MaxWaits
    /\ Len(w.st.cl) <= MaxCoSubs
    /\ Len(w.sc) <= MaxEvents

SetWorld(w) ==
    /\ Within(w)
    /\ SetStore(w.st)
    /\ co' = w.co
    /\ resumes' = w.rs
    /\ events' = w.ev
    /\ sched' = w.sc

\* An exception of a slice propagates: neither run_hooks nor update() nor
\* start() catches it, so every call in progress is left, and the caller of
\* the outermost one catches it.  `stk` is the stack if nothing is raised.
Propagates(w) == w.st.err = "Exception"

Caught(w) ==
    [w EXCEPT !.st.err = "none",
              !.co.raised = IF @ < 2 THEN @ + 1 ELSE @,
              !.co.raisedAt = IF w.co.raised = 0 THEN w.co.steps ELSE @]

SetWorldOrRaise(w, stk) ==
    IF Propagates(w)
    THEN SetWorld(Caught(w)) /\ stack' = <<>>
    ELSE SetWorld(w) /\ stack' = stk

-----------------------------------------------------------------------------
\* Top-level calls of the program's user (the stack is empty).

\* GameObjectSystem.new_object / game_objects.new_object
NewObject ==
    /\ UNCHANGED <<quad, phys>>
    /\ Idle
    /\ created < MaxObjects
    /\ created' = created + 1
    /\ live' = live \cup {created + 1}
    /\ liveM' = liveM \cup {created + 1}
    /\ UNCHANGED <<isDestroyed, listeners, closures, removeParentHook, error,
                   stack, histVars, coVars>>

\* The hooks a user subscribes, per study: destroy hooks that destroy a
\* GameObject (e.destroy itself is such a hook), update hooks that destroy or
\* create GameObjects, and hooks that change the list they run in.
DestroyHooks == {UserFn(1)} \cup {DestroyFn(e) : e \in 1..created}
UpdateHooks == {UserFn(1), NewFn} \cup {DestroyFn(e) : e \in 1..created}
ListHooks ==
    {UserFn(n) : n \in 1..2} \cup {AppendFn}
        \cup {UnsubFn(s) : s \in 1..MaxHooks}

CoHooks ==
    {StartFn, SuspendFn} \cup {ResumeFn(r) : r \in 1..MaxWaits}

\* _GameObject.on_update and on_destroy
Subscribe(e, k, cb, max) ==
    /\ UNCHANGED <<quad, phys>>
    /\ Idle
    /\ Len(closures) < max
    /\ SetStore(HookAppend(Store, e, k, cb, None))
    /\ UNCHANGED <<created, live, liveM, isDestroyed, removeParentHook, stack, histVars,
                   coVars>>

\* A call of an unsubscriber the user holds.
Unsubscribe(s) ==
    /\ UNCHANGED <<quad, phys>>
    /\ Idle
    /\ closures[s].by = None
    /\ SetStore(HookUnsubscribe(Store, s))
    /\ UNCHANGED <<created, live, liveM, isDestroyed, removeParentHook, stack, histVars,
                   coVars>>

\* set_parent, lines 124-125: the previous binding is unsubscribed.
DropPreviousNever(st, c) == st
DropPrevious(st, c) ==
    IF removeParentHook[c] # None
    THEN HookUnsubscribe(st, removeParentHook[c])
    ELSE st

\* set_parent, line 128: the hook subscribed to the parent is self.destroy.
ParentHookOfParent(c, p) == DestroyFn(p)
ParentHook(c, p) == DestroyFn(c)

\* _GameObject.set_parent
SetParent(c, p) ==
    /\ UNCHANGED <<quad, phys>>
    /\ Idle
    /\ p # None => Len(closures) < MaxSubs
    /\ LET st1 == DropPrevious(Store, c)
           st2 == IF p # None
                  THEN HookAppend(st1, p, "destroy", ParentHook(c, p), c)
                  ELSE st1
       IN /\ SetStore(st2)
          /\ removeParentHook' =
                [removeParentHook EXCEPT ![c] = IF p # None THEN Len(st2.cl) ELSE None]
    /\ parentOf' = [parentOf EXCEPT ![c] = p]
    /\ UNCHANGED <<created, live, liveM, isDestroyed, stack, passes, runs, bornIn, coVars>>

\* _GameObject.destroy
Destroy(e) ==
    /\ UNCHANGED <<quad, phys>>
    /\ Idle
    /\ DestroyCall(e, stack)
    /\ UNCHANGED <<created, listeners, closures, removeParentHook, error,
                   passes, parentOf, bornIn, coVars>>

\* GameObjectSystem.update / game_objects.update
Update ==
    /\ UNCHANGED <<quad, phys>>
    /\ Idle
    /\ passes < MaxPasses
    /\ passes' = passes + 1
    /\ stack' = <<PassFrame>>
    /\ UNCHANGED <<codeVars, parentOf, runs, bornIn, coVars>>

\* coroutine.start()
CoStart ==
    /\ UNCHANGED <<quad, phys>>
    /\ Idle
    /\ \E out \in GenOutcomes(co) : SetWorldOrRaise(StartCo(World, out), stack)
    /\ UNCHANGED <<created, live, liveM, isDestroyed, removeParentHook, histVars, now>>

\* coroutine.suspend()
CoSuspend ==
    /\ UNCHANGED <<quad, phys>>
    /\ Idle
    /\ SetWorld(SuspendCo(World))
    /\ UNCHANGED <<created, live, liveM, isDestroyed, removeParentHook, stack, histVars,
                   now>>

\* A call of a resume callback that a continuation kept.
CoResume(r) ==
    /\ UNCHANGED <<quad, phys>>
    /\ Idle
    /\ resumes[r].kept
    /\ SetWorld(DoResume(World, r))
    /\ UNCHANGED <<created, live, liveM, isDestroyed, removeParentHook, stack, histVars,
                   now>>

\* GameTime.run_callbacks()
RunCallbacks ==
    /\ UNCHANGED <<quad, phys>>
    /\ Idle
    /\ events # {}
    /\ stack' = <<PumpFrame>>
    /\ UNCHANGED <<codeVars, histVars, coVars>>

\* time.run_after_delay(d, cb), called by the user.
Schedule(d, cb) ==
    /\ UNCHANGED <<quad, phys>>
    /\ Idle
    /\ SetWorld(RunAfterDelay(World, d, cb))
    /\ UNCHANGED <<created, live, liveM, isDestroyed, removeParentHook, stack, histVars,
                   now>>

\* Time passes, between calls or while run_callbacks loops:
\* pygame.time.get_ticks() grows.
Tick ==
    /\ UNCHANGED <<quad, phys>>
    /\ Idle \/ (Running /\ Top.op = "pump" /\ Top.i = 1)
    /\ now < MaxTime
    /\ now' = now + 1
    /\ UNCHANGED <<codeVars, stack, histVars, co, resumes, events, sched>>

-----------------------------------------------------------------------------
\* Steps of a running call.

\* The loop of GameObjectSystem.update: obj.update() for the next object of the
\* copy (a Python set iterates in no particular order).
PassNext ==
    /\ UNCHANGED <<quad, phys>>
    /\ Running
    /\ Top.op = "update"
    /\ \E obj \in PassPending(Top) :
        LET f == [Top EXCEPT !.todo = @ \ {obj}, !.done = @ \cup {obj}]
            stk == [stack EXCEPT ![Len(stack)] = f]
        IN stack' = IF listeners[obj]["update"] = <<>>
                    THEN stk
                    ELSE Append(stk, HookFrame("run", obj, {}, {}))
    /\ UNCHANGED <<codeVars, histVars, coVars>>

\* What a hook does when run_hooks of list (e, k) invokes it, with `stk` the
\* stack once the loop has moved on.
Invoke(cb, e, k, stk, max) ==
    CASE cb.kind = "user" ->
            /\ stack' = stk
            /\ UNCHANGED <<codeVars, runs, bornIn, coVars>>
      [] cb.kind = "destroy" ->
            /\ DestroyCall(cb.arg, stk)
            /\ UNCHANGED <<created, listeners, closures, removeParentHook, error, bornIn,
                           coVars>>
      [] cb.kind = "append" ->
            /\ Len(closures) < max
            /\ SetStore(HookAppend(Store, e, k, UserFn(1), None))
            /\ stack' = stk
            /\ UNCHANGED <<created, live, liveM, isDestroyed, removeParentHook, runs, bornIn,
                           coVars>>
      [] cb.kind = "unsub" ->
            /\ cb.arg <= Len(closures)
            /\ SetStore(HookUnsubscribe(Store, cb.arg))
            /\ stack' = stk
            /\ UNCHANGED <<created, live, liveM, isDestroyed, removeParentHook, runs, bornIn,
                           coVars>>
      [] cb.kind = "co" ->
            /\ \E out \in GenOutcomes(co) : SetWorldOrRaise(UpdateHookCo(World, out), stk)
            /\ UNCHANGED <<created, live, liveM, isDestroyed, removeParentHook, runs, bornIn,
                           now>>
      [] cb.kind = "start" ->
            /\ \E out \in GenOutcomes(co) : SetWorldOrRaise(StartCo(World, out), stk)
            /\ UNCHANGED <<created, live, liveM, isDestroyed, removeParentHook, runs, bornIn,
                           now>>
      [] cb.kind = "suspend" ->
            /\ SetWorld(SuspendCo(World))
            /\ stack' = stk
            /\ UNCHANGED <<created, live, liveM, isDestroyed, removeParentHook, runs, bornIn,
                           now>>
      [] cb.kind = "resume" ->
            /\ SetWorld(UserResume(World, cb.arg))
            /\ stack' = stk
            /\ UNCHANGED <<created, live, liveM, isDestroyed, removeParentHook, runs, bornIn,
                           now>>
      [] cb.kind = "new" ->
            /\ created < MaxObjects
            /\ created' = created + 1
            /\ live' = live \cup {created + 1}
            /\ liveM' = liveM \cup {created + 1}
            /\ stack' = stk
            /\ bornIn' = [bornIn EXCEPT ![created + 1] = passes]
            /\ UNCHANGED <<isDestroyed, listeners, closures, removeParentHook, error,
                           runs, coVars>>

\* One iteration of the loop of HookList.run_hooks.
InvokeHook(max) ==
    /\ UNCHANGED <<quad, phys>>
    /\ Running
    /\ Top.op \in {"destroy", "run"}
    /\ Top.i <= Len(RunList(Top))
    /\ LET f == Top
           cb == RunList(f)[f.i].cb
           g == [f EXCEPT !.i = @ + 1, !.invoked = Append(@, cb)]
       IN Invoke(cb, f.e, FrameKind(f), [stack EXCEPT ![Len(stack)] = g], max)
          /\ UNCHANGED <<passes, parentOf>>

\* One iteration of the loop of GameTime.run_callbacks: the popped event is
\* fired if it is due, else it is pushed back and the loop ends.
PumpStep ==
    /\ UNCHANGED <<quad, phys>>
    /\ Running
    /\ Top.op = "pump"
    /\ Top.i = 1
    /\ \E event \in Minimal(events) :
        IF Due(event)
        THEN /\ SetWorld(Fire(World, event))
             /\ stack' = [stack EXCEPT ![Len(stack)].invoked = Append(@, event.id)]
             /\ UNCHANGED <<created, live, liveM, isDestroyed, removeParentHook,
                            histVars, now>>
        ELSE /\ stack' = [stack EXCEPT ![Len(stack)].i = 2]
             /\ UNCHANGED <<codeVars, histVars, coVars>>

\* run_hooks is through its copy: destroy() or obj.update() returns.
\* game_objects.py discards the object here, after its hooks.
Return ==
    /\ UNCHANGED <<quad, phys>>
    /\ Running
    /\ \/ Top.op \in {"destroy", "run"} /\ Top.i > Len(RunList(Top))
       \/ Top.op = "update" /\ PassPending(Top) = {}
       \/ Top.op = "pump" /\ (Top.i = 2 \/ events = {})
    /\ liveM' = IF Top.op = "destroy" THEN liveM \ {Top.e} ELSE liveM
    /\ stack' = SubSeq(stack, 1, Len(stack) - 1)
    /\ UNCHANGED <<created, live, isDestroyed, listeners, closures, removeParentHook,
                   error, histVars, coVars>>

-----------------------------------------------------------------------------
\* physics/quadtree.py and physics/aabb.py.  A collider is its position in
\* the list given to Quadtree(); its box is cs[c].  Coordinates are multiples
\* of Scale, so that every midpoint make_subtrees computes down to MaxDepth
\* is the exact value the float arithmetic gives.

Scale == 2 ^ MaxDepth

AABB(x0, x1, y0, y1) ==
    [x_min |-> x0 * Scale, x_max |-> x1 * Scale, y_min |-> y0 * Scale, y_max |-> y1 * Scale]

\* AABB.intersects: closed boxes, a shared edge or corner intersects.
Intersects(a, b) ==
    /\ a.x_max >= b.x_min
    /\ a.x_min <= b.x_max
    /\ a.y_max >= b.y_min
    /\ a.y_min <= b.y_max

\* _QuadtreeNode.__init__: a leaf without colliders.  children = <<>> is None.
QuadtreeNode(aabb, depth) ==
    [aabb |-> aabb, depth |-> depth, children |-> <<>>, colliders |-> <<>>]

\* 0.5 * (hi + lo)
Mid(lo, hi) == (hi + lo) \div 2

\* _QuadtreeNode.make_subtrees
MakeSubtrees(n) ==
    LET x_mid == Mid(n.aabb.x_min, n.aabb.x_max)
        y_mid == Mid(n.aabb.y_min, n.aabb.y_max)
        d == n.depth + 1
    IN  << QuadtreeNode([x_min |-> x_mid, x_max |-> n.aabb.x_max,
                         y_min |-> y_mid, y_max |-> n.aabb.y_max], d),
           QuadtreeNode([x_min |-> n.aabb.x_min, x_max |-> x_mid,
                         y_min |-> y_mid, y_max |-> n.aabb.y_max], d),
           QuadtreeNode([x_min |-> n.aabb.x_min, x_max |-> x_mid,
                         y_min |-> n.aabb.y_min, y_max |-> y_mid], d),
           QuadtreeNode([x_min |-> x_mid, x_max |-> n.aabb.x_max,
                         y_min |-> n.aabb.y_min, y_max |-> y_mid], d) >>

\* The variant that treats the node's box as open.
NodeIntersectsOpen(n, box) ==
    /\ box.x_max > n.aabb.x_min
    /\ box.x_min < n.aabb.x_max
    /\ box.y_max > n.aabb.y_min
    /\ box.y_min < n.aabb.y_max

\* _QuadtreeNode.intersects
NodeIntersects(n, box) == Intersects(box, n.aabb)

RECURSIVE NodeAdd(_, _, _)
RECURSIVE AddToChildren(_, _, _)
RECURSIVE Redistribute(_, _, _, _)

\* _QuadtreeNode._add_to_children
AddToChildren(cs, n, c) ==
    [n EXCEPT !.children =
        [k \in 1..4 |-> IF NodeIntersects(@[k], cs[c]) THEN NodeAdd(cs, @[k], c) ELSE @[k]]]

\* The loop of subdivide() over the colliders the leaf held, from the i-th on.
Redistribute(cs, n, old, i) ==
    IF i > Len(old) THEN n
    ELSE Redistribute(cs, AddToChildren(cs, n, old[i]), old, i + 1)

\* _QuadtreeNode.subdivide
Subdivide(cs, n) ==
    Redistribute(cs, [n EXCEPT !.children = MakeSubtrees(n), !.colliders = <<>>],
                 n.colliders, 1)

\* The variant that still subdivides a leaf at max depth.
AddToSelfDeeper(cs, n, c) ==
    IF n.depth <= MaxDepth /\ Len(n.colliders) + 1 >= max_load
    THEN AddToChildren(cs, Subdivide(cs, n), c)
    ELSE [n EXCEPT !.colliders = Append(@, c)]

\* _QuadtreeNode._add_to_self
AddToSelf(cs, n, c) ==
    IF n.depth < MaxDepth /\ Len(n.colliders) + 1 >= max_load
    THEN AddToChildren(cs, Subdivide(cs, n), c)
    ELSE [n EXCEPT !.colliders = Append(@, c)]

\* _QuadtreeNode.add
NodeAdd(cs, n, c) ==
    IF n.children = <<>> THEN AddToSelf(cs, n, c) ELSE AddToChildren(cs, n, c)

\* min() and max() over the colliders' boxes
Lowest(S) == CHOOSE x \in S : \A y \in S : x <= y
Highest(S) == CHOOSE x \in S : \A y \in S : x >= y

RECURSIVE AddAll(_, _, _)
AddAll(cs, n, i) ==
    IF i > Len(cs) THEN n ELSE AddAll(cs, NodeAdd(cs, n, i), i + 1)

\* Quadtree.__init__: the root box bounds every collider; they are added in
\* list order.
Quadtree(cs) ==
    LET Is == 1..Len(cs)
    IN  AddAll(cs,
               QuadtreeNode([x_min |-> Lowest({cs[i].x_min : i \in Is}),
                             x_max |-> Highest({cs[i].x_max : i \in Is}),
                             y_min |-> Lowest({cs[i].y_min : i \in Is}),
                             y_max |-> Highest({cs[i].y_max : i \in Is})], 0),
               1)

\* order_pair: the tuple with the lower id() first.
OrderPair(addr, p) == IF addr[p[1]] > addr[p[2]] THEN <<p[2], p[1]>> ELSE p

\* A leaf's result: itertools.combinations(self._colliders, 2), filtered.
\* The result is a bag: a tuple produced twice is in it twice.
LeafPairs(cs, n) ==
    LET l == n.colliders
        Combos == {ij \in (1..Len(l)) \X (1..Len(l)) :
                       ij[1] < ij[2] /\ Intersects(cs[l[ij[1]]], cs[l[ij[2]]])}
        Tuples == {<<l[ij[1]], l[ij[2]]>> : ij \in Combos}
    IN  [p \in Tuples |-> Cardinality({ij \in Combos : <<l[ij[1]], l[ij[2]]>> = p})]

\* The variant that concatenates the children's results.
MergeKeepAll(S) == SetToBag(S[1]) (+) SetToBag(S[2]) (+) SetToBag(S[3]) (+) SetToBag(S[4])

\* pairs = set(); pairs |= set(...) for every child
Merge(S) == SetToBag(S[1] \cup S[2] \cup S[3] \cup S[4])

RECURSIVE NodePairs(_, _, _)
\* _QuadtreeNode.get_nearby_pairs
NodePairs(cs, addr, n) ==
    IF n.children # <<>>
    THEN Merge([k \in 1..4 |->
                   {OrderPair(addr, p) : p \in BagToSet(NodePairs(cs, addr, n.children[k]))}])
    ELSE LeafPairs(cs, n)

\* The boxes colliders are drawn from, in units of Scale: corner boxes that
\* share an edge or a corner, a box across the split lines, a segment on one.
Boxes ==
    { AABB(0, 1, 0, 1), AABB(1, 2, 0, 1), AABB(1, 3, 1, 3),
      AABB(2, 2, 0, 4), AABB(3, 4, 3, 4) }

RECURSIVE Lists(_, _)
Lists(S, n) ==
    IF n = 0 THEN {<<>>} ELSE {Append(l, x) : l \in Lists(S, n - 1), x \in S}

\* id() of the colliders: allocation order or its reverse.
Addrs(n) == {[c \in 1..n |-> c], [c \in 1..n |-> n + 1 - c]}

NoQuad == [phase |-> "none"]

QuadInputs ==
    {[phase |-> "input", colliders |-> cs, addr |-> a] :
        cs \in UNION {Lists(Boxes, n) : n \in 1..MaxColliders}, a \in Addrs(MaxColliders)}

\* quadtree = Quadtree(colliders)
Construct ==
    /\ quad.phase = "input"
    /\ quad' = [phase |-> "built", colliders |-> quad.colliders, addr |-> quad.addr,
                root |-> Quadtree(quad.colliders)]
    /\ UNCHANGED <<codeVars, stack, histVars, coVars, phys>>

\* quadtree.get_nearby_pairs()
GetNearbyPairs ==
    /\ quad.phase = "built"
    /\ quad' = [phase |-> "queried", colliders |-> quad.colliders, addr |-> quad.addr,
                root |-> quad.root, pairs |-> NodePairs(quad.colliders, quad.addr, quad.root)]
    /\ UNCHANGED <<codeVars, stack, histVars, coVars, phys>>

-----------------------------------------------------------------------------
\* Numbers of the physics code.  A float is modelled by the rational it
\* stands for, [n, d] in lowest terms with d > 0; math.inf is 1/0, so that
\* 1 / math.inf is 0 as in IEEE arithmetic.

RECURSIVE GCD(_, _)
GCD(a, b) == IF b = 0 THEN a ELSE GCD(b, a % b)

Abs(a) == IF a < 0 THEN -a ELSE a

Rat(n, d) ==
    LET g == GCD(Abs(n), Abs(d))
        sg == IF d < 0 THEN -1 ELSE 1
    IN  IF g = 0 THEN [n |-> 0, d |-> 1] ELSE [n |-> sg * (n \div g), d |-> sg * (d \div g)]

Int2R(k) == [n |-> k, d |-> 1]
Zero == Int2R(0)
Inf == [n |-> 1, d |-> 0]

\* The arithmetic cancels common factors before it multiplies.
RAdd(a, b) ==
    LET g == GCD(a.d, b.d)
    IN  Rat(a.n * (b.d \div g) + b.n * (a.d \div g), (a.d \div g) * b.d)
RNeg(a) == [n |-> -a.n, d |-> a.d]
RSub(a, b) == RAdd(a, RNeg(b))
RMul(a, b) ==
    LET g1 == GCD(Abs(a.n), b.d)
        g2 == GCD(Abs(b.n), a.d)
    IN  IF a.n = 0 \/ b.n = 0 THEN [n |-> 0, d |-> 1]
        ELSE Rat((a.n \div g1) * (b.n \div g2), (a.d \div g2) * (b.d \div g1))
\* a / b for b # 0; a finite number divided by math.inf is 0.
RDiv(a, b) == IF b.d = 0 THEN Zero ELSE RMul(a, Rat(b.d, b.n))
RLess(a, b) == RSub(a, b).n < 0
RSq(a) == RMul(a, a)

-----------------------------------------------------------------------------
\* physics/physics.py (PhysicsSystem with colliders and triggers) and
\* physics.py (the PhysicsSystem whose bodies are circles).  A system is a
\* record s:
\*   body[b]    x, y (the transform), vx, vy, mass, hooks (_collision_hooks)
\*   coll[c]    kind, radius, body (regular) or x, y and hooks (trigger)
\*   bodies     PhysicsSystem._bodies (physics.py: _objects)
\*   circles    PhysicsSystem._circle_colliders
\*   error      the exception that ended the step, or "none"
\* and the history of the step in progress:
\*   calls      bag of collision hook invocations <<hook, body_self, body_other>>
\*   reports    bag of trigger hook invocations <<hook, trigger_zone, other_collider>>
\*   impulses   bag of add_impulse calls <<body, pair>>
\*   resolved   bag of the pairs whose collision hooks were run
\*   moves      bag of the bodies the integration loop moved
\*   visited    bag of the pairs the loop of _process_collisions came to
\*   kills      the bodies whose GameObject a hook of the step destroyed
\* destroyed holds the bodies whose GameObject is destroyed, and rev tells
\* whether a set of hooks is iterated in the reverse order of the hooks' ids.

\* Collider.transform: the body's transform, or the trigger's own.
ColX(s, c) == IF s.coll[c].kind = "regular" THEN s.body[s.coll[c].body].x ELSE s.coll[c].x
ColY(s, c) == IF s.coll[c].kind = "regular" THEN s.body[s.coll[c].body].y ELSE s.coll[c].y

\* _CircleColliderMixin._overlaps
Overlaps(s, c1, c2) ==
    LET dx == RSub(ColX(s, c1), ColX(s, c2))
        dy == RSub(ColY(s, c1), ColY(s, c2))
        dist_squared == RAdd(RSq(dx), RSq(dy))
        radii_sum == RAdd(s.coll[c1].radius, s.coll[c2].radius)
    IN  RLess(dist_squared, RMul(radii_sum, radii_sum))

\* _CircleColliderMixin._make_aabb, and AABB.intersects on the two boxes
AabbIntersects(s, c1, c2) ==
    LET XMin(c) == RSub(ColX(s, c), s.coll[c].radius)
        XMax(c) == RAdd(ColX(s, c), s.coll[c].radius)
        YMin(c) == RSub(ColY(s, c), s.coll[c].radius)
        YMax(c) == RAdd(ColY(s, c), s.coll[c].radius)
    IN  /\ ~RLess(XMax(c1), XMin(c2))
        /\ ~RLess(XMax(c2), XMin(c1))
        /\ ~RLess(YMax(c1), YMin(c2))
        /\ ~RLess(YMax(c2), YMin(c1))

\* PhysicsSystem.get_overlapping_pairs for the colliders in the order the set
\* _circle_colliders was iterated in: the pairs the quadtree returns are the
\* pairs of boxes that intersect (C19), each once (C20), and those that
\* overlap as circles are kept.
GetOverlappingPairs(s, order) ==
    LET n == Len(order)
        Keep(i, j) == AabbIntersects(s, order[i], order[j]) /\ Overlaps(s, order[i], order[j])
        Ps == {ij \in (1..n) \X (1..n) : ij[1] < ij[2] /\ Keep(ij[1], ij[2])}
        \* itertools.combinations order
        Rank(ij) == Cardinality({q \in Ps : q[1] < ij[1] \/ (q[1] = ij[1] /\ q[2] < ij[2])})
    IN  [k \in 1..Cardinality(Ps) |->
            LET ij == CHOOSE q \in Ps : Rank(q) = k - 1 IN <<order[ij[1]], order[ij[2]]>>]

\* The variant that ignores the mass.
AddImpulseNoMass(s, b, ix, iy, pair) ==
    [s EXCEPT !.body[b].vx = RAdd(@, ix),
              !.body[b].vy = RAdd(@, iy),
              !.impulses = @ (+) SetToBag({<<b, pair>>})]

\* PhysicsBody.add_impulse
AddImpulse(s, b, ix, iy, pair) ==
    [s EXCEPT !.body[b].vx = RAdd(@, RDiv(ix, s.body[b].mass)),
              !.body[b].vy = RAdd(@, RDiv(iy, s.body[b].mass)),
              !.impulses = @ (+) SetToBag({<<b, pair>>})]

\* What a hook does besides being called: nothing, or it writes a velocity.
HookEffects == {"none", "stop"}
CollisionHook(id, effect) == [id |-> id, effect |-> effect]

\* The hook that an "add" hook registers.
AddedHook == CollisionHook(5, "none")

\* PhysicsBody.add_collision_hook
AddCollisionHook(s, b, hook) == [s EXCEPT !.body[b].hooks = @ \cup {hook}]

\* body._colliders of a body that is not destroyed
CollidersOf(s, b) == {c \in DOMAIN s.coll : s.coll[c].kind = "regular" /\ s.coll[c].body = b}

\* PhysicsBody.destroy of physics/physics.py, with collider.destroy() for
\* every collider of the body; the body is in _bodies until it is destroyed.
PhysicsBodyDestroy(s, b) ==
    IF b \notin s.bodies THEN s
    ELSE IF ~(CollidersOf(s, b) \subseteq s.circles)
    THEN [s EXCEPT !.bodies = @ \ {b}, !.error = "KeyError"]
    ELSE [s EXCEPT !.bodies = @ \ {b}, !.circles = @ \ CollidersOf(s, b)]

\* game_object.destroy() on the GameObject of body b, whose destroy hooks
\* hold body.destroy.
GameObjectDestroy(s, b) ==
    IF b \in s.destroyed THEN s
    ELSE PhysicsBodyDestroy([s EXCEPT !.destroyed = @ \cup {b}, !.kills = @ \cup {b}], b)

\* The hooks of the set hs in the order the set is iterated in.
HookOrder(hs, rev) ==
    LET ids == {h.id : h \in hs}
        n == Cardinality(ids)
        Nth(k) == CHOOSE i \in ids : Cardinality({j \in ids : j < i}) = k - 1
    IN  [k \in 1..n |-> CHOOSE h \in hs : h.id = Nth(IF rev THEN n + 1 - k ELSE k)]

\* hook(collision=Collision(body_self, body_other)): a "stop" hook sets
\* body_self's velocity to 0, a "destroy" hook destroys body_self's
\* GameObject, an "add" hook registers one more hook on body_self.
CallCollisionHook(s, h, self, other) ==
    LET s1 == [s EXCEPT !.calls = @ (+) SetToBag({<<h.id, self, other>>})]
    IN  CASE h.effect = "stop" -> [s1 EXCEPT !.body[self].vx = Zero, !.body[self].vy = Zero]
          [] h.effect = "destroy" -> GameObjectDestroy(s1, self)
          [] h.effect = "add" -> AddCollisionHook(s1, self, AddedHook)
          [] OTHER -> s1

\* for hook in body._collision_hooks: hs is the order the set's iterator
\* goes through, started at i; the iterator raises when the set's size is
\* not the one it started with.
RECURSIVE RunHooksFrom(_, _, _, _, _)
RunHooksFrom(s, hs, i, self, other) ==
    IF s.error # "none" THEN s
    ELSE IF Cardinality(s.body[self].hooks) # Len(hs) THEN [s EXCEPT !.error = "RuntimeError"]
    ELSE IF i > Len(hs) THEN s
    ELSE RunHooksFrom(CallCollisionHook(s, hs[i], self, other), hs, i + 1, self, other)

\* hook(collision=Collision(body_self, body_other)) for every hook of
\* body_self._collision_hooks
RunCollisionHooks(s, self, other) ==
    RunHooksFrom(s, HookOrder(s.body[self].hooks, s.rev), 1, self, other)

\* TriggerCollider._run_hooks over the copy of _hooks; a "stop" hook sets the
\* velocity of the other collider's body to 0, a "destroy" hook destroys the
\* GameObject of that body.
RunTriggerHooks(s, t, other) ==
    LET hs == s.coll[t].hooks
        s2 == [s EXCEPT !.reports = @ (+) SetToBag({<<h.id, t, other>> : h \in hs})]
        s3 == IF s.coll[other].kind = "regular" /\ \E h \in hs : h.effect = "stop"
              THEN [s2 EXCEPT !.body[s.coll[other].body].vx = Zero,
                              !.body[s.coll[other].body].vy = Zero]
              ELSE s2
    IN  IF s.coll[other].kind = "regular" /\ \E h \in hs : h.effect = "destroy"
        THEN GameObjectDestroy(s3, s.coll[other].body)
        ELSE s3

\* The variants that never skip a pair, and that skip every pair.
MovingApartNever(v_dot_d) == FALSE
MovingApartAlways(v_dot_d) == TRUE

\* if v_dot_d > 0: continue
MovingApart(v_dot_d) == RLess(Zero, v_dot_d)

\* The variant that resolves as soon as one collider is regular.
BothRegularEither(s, c1, c2) == s.coll[c1].kind = "regular" \/ s.coll[c2].kind = "regular"

\* isinstance(obj1, RegularCollider) and isinstance(obj2, RegularCollider)
BothRegular(s, c1, c2) == s.coll[c1].kind = "regular" /\ s.coll[c2].kind = "regular"

\* The variant that never gives up on a pair.
CoincidentNever(dist_squared) == FALSE

\* if dist_squared == 0: continue
Coincident(dist_squared) == dist_squared = Zero

\* The variant that forgets the second body.
MassDivisorFirst(m1, m2) == RDiv(Int2R(1), m1)

\* 1 / body1.mass + 1 / body2.mass
MassDivisor(m1, m2) == RAdd(RDiv(Int2R(1), m1), RDiv(Int2R(1), m2))

\* The regular-collider branch of _process_collisions for the pair (obj1, obj2).
Resolve(s, obj1, obj2) ==
    LET body1 == s.coll[obj1].body
        body2 == s.coll[obj2].body
        dx == RSub(ColX(s, obj1), ColX(s, obj2))
        dy == RSub(ColY(s, obj1), ColY(s, obj2))
        dist_squared == RAdd(RSq(dx), RSq(dy))
        vx == RSub(s.body[body1].vx, s.body[body2].vx)
        vy == RSub(s.body[body1].vy, s.body[body2].vy)
        v_dot_d == RAdd(RMul(vx, dx), RMul(vy, dy))
        mass_divisor == MassDivisor(s.body[body1].mass, s.body[body2].mass)
        t == RNeg(RDiv(RDiv(RMul(Int2R(2), v_dot_d), mass_divisor), dist_squared))
        s1 == IF RLess(Zero, mass_divisor)
              THEN AddImpulse(AddImpulse(s, body1, RMul(dx, t), RMul(dy, t), <<obj1, obj2>>),
                              body2, RMul(RNeg(dx), t), RMul(RNeg(dy), t), <<obj1, obj2>>)
              ELSE s
    IN  IF s.error # "none" THEN s
        \* obj.body of a collider that has none
        ELSE IF ~(s.coll[obj1].kind = "regular" /\ s.coll[obj2].kind = "regular")
        THEN [s EXCEPT !.error = "AttributeError"]
        ELSE IF Coincident(dist_squared) THEN s
        ELSE IF MovingApart(v_dot_d) THEN s
        \* float division by zero
        ELSE IF RLess(Zero, mass_divisor) /\ dist_squared = Zero
        THEN [s EXCEPT !.error = "ZeroDivisionError"]
        ELSE RunCollisionHooks(RunCollisionHooks(
                 [s1 EXCEPT !.resolved = @ (+) SetToBag({<<obj1, obj2>>})], body1, body2),
                 body2, body1)

\* One iteration of the loop of _process_collisions.
ProcessPair(s, obj1, obj2) ==
    LET s0 == [s EXCEPT !.visited = @ (+) SetToBag({<<obj1, obj2>>})]
        s1 == IF s.coll[obj1].kind = "trigger" THEN RunTriggerHooks(s0, obj1, obj2) ELSE s0
        s2 == IF s.coll[obj2].kind = "trigger" THEN RunTriggerHooks(s1, obj2, obj1) ELSE s1
    IN  IF BothRegular(s2, obj1, obj2) THEN Resolve(s2, obj1, obj2) ELSE s2

\* for (obj1, obj2) in self.get_overlapping_pairs(), until an exception
RECURSIVE ProcessPairs(_, _, _)
ProcessPairs(s, pairs, i) ==
    IF i > Len(pairs) \/ s.error # "none" THEN s
    ELSE ProcessPairs(ProcessPair(s, pairs[i][1], pairs[i][2]), pairs, i + 1)

\* Quadtree.__init__: assert len(colliders) > 0
QuadtreeAssert(s) == s.circles # {}

\* PhysicsSystem._process_collisions
ProcessCollisions(s, order) ==
    IF ~QuadtreeAssert(s) THEN [s EXCEPT !.error = "AssertionError"]
    ELSE ProcessPairs(s, GetOverlappingPairs(s, order), 1)

\* The variant that moves every body the system ever had.
IntegratedEver(s) == DOMAIN s.body

\* for obj in self._bodies
Integrated(s) == s.bodies

\* PhysicsSystem.update of physics/physics.py; an exception of
\* _process_collisions ends it.
PhysicsUpdate(s, order, delta_time) ==
    LET s1 == ProcessCollisions(s, order)
    IN  IF s1.error # "none" THEN s1
        ELSE [s1 EXCEPT !.body = [b \in DOMAIN s1.body |->
                                IF b \in Integrated(s1)
                                THEN [s1.body[b] EXCEPT !.x = RAdd(@, RMul(s1.body[b].vx, delta_time)),
                                                        !.y = RAdd(@, RMul(s1.body[b].vy, delta_time))]
                                ELSE s1.body[b]],
                   !.moves = @ (+) SetToBag(Integrated(s1))]


-----------------------------------------------------------------------------
\* physics.py: every body is a circle (body[b].radius), and the collision
\* hooks are collected during the loop and run after the bodies have moved.

\* _PhysicsCircleBody.overlaps
OverlapsOld(o, b1, b2) ==
    LET dx == RSub(o.body[b1].x, o.body[b2].x)
        dy == RSub(o.body[b1].y, o.body[b2].y)
        dist_squared == RAdd(RSq(dx), RSq(dy))
        radii_sum == RAdd(o.body[b1].radius, o.body[b2].radius)
    IN  RLess(dist_squared, RMul(radii_sum, radii_sum))

\* filter(overlaps, itertools.combinations(self._objects, 2))
OverlappingPairsOld(o, order) ==
    LET n == Len(order)
        Ps == {ij \in (1..n) \X (1..n) : ij[1] < ij[2] /\ OverlapsOld(o, order[ij[1]], order[ij[2]])}
        Rank(ij) == Cardinality({q \in Ps : q[1] < ij[1] \/ (q[1] = ij[1] /\ q[2] < ij[2])})
    IN  [k \in 1..Cardinality(Ps) |->
            LET ij == CHOOSE q \in Ps : Rank(q) = k - 1 IN <<order[ij[1]], order[ij[2]]>>]

\* One iteration of the loop of update(); o.pending is the local set hooks.
ResolveOld(o, obj1, obj2) ==
    LET dx == RSub(o.body[obj1].x, o.body[obj2].x)
        dy == RSub(o.body[obj1].y, o.body[obj2].y)
        dist_squared == RAdd(RSq(dx), RSq(dy))
        vx == RSub(o.body[obj1].vx, o.body[obj2].vx)
        vy == RSub(o.body[obj1].vy, o.body[obj2].vy)
        v_dot_d == RAdd(RMul(vx, dx), RMul(vy, dy))
        mass_divisor == MassDivisor(o.body[obj1].mass, o.body[obj2].mass)
        t == RNeg(RDiv(RDiv(RMul(Int2R(2), v_dot_d), mass_divisor), dist_squared))
        o1 == AddImpulse(AddImpulse(o, obj1, RMul(dx, t), RMul(dy, t), <<obj1, obj2>>),
                         obj2, RMul(RNeg(dx), t), RMul(RNeg(dy), t), <<obj1, obj2>>)
    IN  IF o.error # "none" THEN o
        ELSE IF Coincident(dist_squared) THEN o
        \* float division by zero
        ELSE IF mass_divisor = Zero \/ dist_squared = Zero
        THEN [o EXCEPT !.error = "ZeroDivisionError"]
        ELSE IF RLess(t, Zero) THEN o
        ELSE [o1 EXCEPT !.resolved = @ (+) SetToBag({<<obj1, obj2>>}),
                        !.pending = @ \cup {<<h, obj1, obj2>> : h \in o.body[obj1].hooks}
                                      \cup {<<h, obj2, obj1>> : h \in o.body[obj2].hooks}]

RECURSIVE ResolveAllOld(_, _, _)
ResolveAllOld(o, pairs, i) ==
    IF i > Len(pairs) THEN o
    ELSE ResolveAllOld(ResolveOld(o, pairs[i][1], pairs[i][2]), pairs, i + 1)

\* for hook in hooks: hook()
RunPendingOld(o) ==
    LET stopped == {p[2] : p \in {q \in o.pending : q[1].effect = "stop"}}
        adding == {p[2] : p \in {q \in o.pending : q[1].effect = "add"}}
    IN  [o EXCEPT !.calls = @ (+) SetToBag({<<p[1].id, p[2], p[3]>> : p \in o.pending}),
                  !.body = [b \in DOMAIN o.body |->
                               LET b1 == IF b \in stopped
                                         THEN [o.body[b] EXCEPT !.vx = Zero, !.vy = Zero]
                                         ELSE o.body[b]
                               IN  IF b \in adding THEN [b1 EXCEPT !.hooks = @ \cup {AddedHook}]
                                   ELSE b1],
                  !.pending = {}]

\* PhysicsSystem.update of physics.py
UpdateOld(o, order, delta_time) ==
    LET o1 == ResolveAllOld(o, OverlappingPairsOld(o, order), 1)
        o2 == [o1 EXCEPT !.body = [b \in DOMAIN o1.body |->
                                      IF b \in o1.bodies
                                      THEN [o1.body[b] EXCEPT
                                               !.x = RAdd(@, RMul(o1.body[b].vx, delta_time)),
                                               !.y = RAdd(@, RMul(o1.body[b].vy, delta_time))]
                                      ELSE o1.body[b]],
                       !.moves = @ (+) SetToBag(o1.bodies)]
    IN  IF o1.error # "none" THEN o1 ELSE RunPendingOld(o2)

-----------------------------------------------------------------------------
\* The worlds a physics step is tried on: body 1 at the origin, body 2 at
\* distance 15 (on the x axis or oblique), at the same place, or out of
\* reach; radius 10; body 1 may carry a second, smaller collider; a trigger
\* zone may lie around body 2's place.

Positions == {<<15, 0>>, <<9, 12>>, <<0, 0>>, <<30, 0>>}
Velocities == {<<1, 0>>, <<0, 0>>, <<-1, 0>>, <<0, 1>>}
Masses == {Int2R(1), Int2R(3), Inf}
HookSets == {{CollisionHook(1, "none")}, {CollisionHook(1, "none"), CollisionHook(2, "stop")}}

NewBody(pos, vel, mass, hooks) ==
    [x |-> Int2R(pos[1]), y |-> Int2R(pos[2]), vx |-> Int2R(vel[1]), vy |-> Int2R(vel[2]),
     mass |-> mass, hooks |-> hooks, radius |-> Int2R(10)]

\* PhysicsBody.add_circle_collider
CircleCollider(b, radius) == [kind |-> "regular", body |-> b, radius |-> Int2R(radius)]

\* PhysicsSystem.new_circle_trigger with one hook from add_trigger_hook
CircleTriggerCollider(pos, radius, effect) ==
    [kind |-> "trigger", x |-> Int2R(pos[1]), y |-> Int2R(pos[2]), radius |-> Int2R(radius),
     hooks |-> {CollisionHook(3, effect)}]

\* A system of physics/physics.py with the bodies bs and the colliders cs.
System(bs, cs) ==
    [body |-> bs, coll |-> cs, bodies |-> DOMAIN bs, circles |-> DOMAIN cs, error |-> "none",
     destroyed |-> {}, rev |-> FALSE, kills |-> {}, visited |-> EmptyBag,
     calls |-> EmptyBag, reports |-> EmptyBag, impulses |-> EmptyBag, resolved |-> EmptyBag,
     moves |-> EmptyBag]

\* A system of physics.py with the same bodies.
SystemOld(bs) ==
    [body |-> bs, bodies |-> DOMAIN bs, error |-> "none", pending |-> {},
     calls |-> EmptyBag, reports |-> EmptyBag, impulses |-> EmptyBag, resolved |-> EmptyBag,
     moves |-> EmptyBag]

ColliderSets ==
    LET two == <<CircleCollider(1, 10), CircleCollider(2, 10)>>
        three == Append(two, CircleCollider(1, 8))
    IN  {two, three} \cup
        {Append(cs, CircleTriggerCollider(<<15, 0>>, 10, e)) : cs \in {two, three}, e \in HookEffects}

PhysInputs ==
    {[phase |-> "physics", variant |-> v,
      dt |-> Zero, new |-> System(bs, cs), newBefore |-> System(bs, cs), newSteps |-> 0,
      old |-> SystemOld(bs), oldBefore |-> SystemOld(bs), oldSteps |-> 0] :
        bs \in {<<NewBody(<<0, 0>>, v1, m1, h1), NewBody(p2, v2, m2, {CollisionHook(4, "none")})>> :
                   p2 \in Positions, v1 \in Velocities, v2 \in Velocities,
                   m1 \in Masses, m2 \in Masses, h1 \in HookSets},
        cs \in ColliderSets, v \in {"physics/physics.py", "physics.py"}}

\* Worlds whose hooks destroy GameObjects: a collision hook destroys the
\* GameObject of its own body, the trigger hook that of the body it meets;
\* besides the collider sets above, a system whose colliders are all gone.
DestroyHookSets == {{CollisionHook(1, "none")}, {CollisionHook(1, "none"), CollisionHook(2, "destroy")}}

DestroyColliderSets ==
    LET two == <<CircleCollider(1, 10), CircleCollider(2, 10)>>
        three == Append(two, CircleCollider(1, 8))
    IN  {two, three, <<>>} \cup
        {Append(cs, CircleTriggerCollider(<<15, 0>>, 10, e)) : cs \in {two, three},
                                                              e \in {"none", "destroy"}}

DestroyInputs ==
    {[phase |-> "physics", variant |-> "physics/physics.py",
      dt |-> Zero, new |-> System(bs, cs), newBefore |-> System(bs, cs), newSteps |-> 0,
      old |-> SystemOld(bs), oldBefore |-> SystemOld(bs), oldSteps |-> 0] :
        bs \in {<<NewBody(<<0, 0>>, v1, m1, h1), NewBody(p2, v2, Int2R(1), {CollisionHook(4, e2)})>> :
                   p2 \in Positions, v1 \in Velocities, v2 \in Velocities,
                   m1 \in Masses, h1 \in DestroyHookSets, e2 \in {"none", "destroy"}},
        cs \in DestroyColliderSets}

\* Worlds in which a collision hook of body 1 registers one more hook on
\* body 1; the set of hooks is iterated in either order.
AddHookSets == {{CollisionHook(1, "add")}, {CollisionHook(1, "none"), CollisionHook(2, "add")}}

AddInputs ==
    {[phase |-> "physics", variant |-> v,
      dt |-> Zero, new |-> [System(bs, cs) EXCEPT !.rev = r],
      newBefore |-> [System(bs, cs) EXCEPT !.rev = r], newSteps |-> 0,
      old |-> SystemOld(bs), oldBefore |-> SystemOld(bs), oldSteps |-> 0] :
        bs \in {<<NewBody(<<0, 0>>, v1, m1, h1), NewBody(p2, v2, Int2R(1), {CollisionHook(4, "none")})>> :
                   p2 \in Positions, v1 \in Velocities, v2 \in Velocities,
                   m1 \in Masses, h1 \in AddHookSets},
        cs \in ColliderSets, r \in BOOLEAN, v \in {"physics/physics.py", "physics.py"}}

\* The orders the set is iterated in: by allocation, or the reverse.
Ascending(S) ==
    [k \in 1..Cardinality(S) |-> CHOOSE c \in S : Cardinality({x \in S : x < c}) = k - 1]
Orders(S) ==
    {Ascending(S), [k \in 1..Cardinality(S) |-> Ascending(S)[Cardinality(S) + 1 - k]]}

\* The history of a step starts empty.
Fresh(s) == [s EXCEPT !.calls = EmptyBag, !.reports = EmptyBag, !.impulses = EmptyBag,
                      !.resolved = EmptyBag, !.moves = EmptyBag]

\* The same for a system of physics/physics.py.
FreshNew(s) == [Fresh(s) EXCEPT !.kills = {}, !.visited = EmptyBag]

\* delta_time, in milliseconds
DeltaTimes == {Int2R(16)}

\* game.physics.update(delta_time) on the system of physics/physics.py
PhysicsStep ==
    /\ phys.phase = "physics"
    /\ phys.variant = "physics/physics.py"
    /\ phys.newSteps < MaxSteps
    /\ phys.new.error = "none"
    /\ \E order \in Orders(phys.new.circles), dt \in DeltaTimes :
          phys' = [phys EXCEPT !.newBefore = FreshNew(phys.new),
                               !.new = PhysicsUpdate(FreshNew(phys.new), order, dt),
                               !.newSteps = @ + 1, !.dt = dt]
    /\ UNCHANGED <<codeVars, stack, histVars, coVars, quad>>

\* game.physics.update(delta_time) on the system of physics.py
PhysicsStepOld ==
    /\ phys.phase = "physics"
    /\ phys.variant = "physics.py"
    /\ phys.oldSteps < MaxSteps
    /\ phys.old.error = "none"
    /\ \E order \in Orders(phys.old.bodies), dt \in DeltaTimes :
          phys' = [phys EXCEPT !.oldBefore = Fresh(phys.old),
                               !.old = UpdateOld(Fresh(phys.old), order, dt),
                               !.oldSteps = @ + 1, !.dt = dt]
    /\ UNCHANGED <<codeVars, stack, histVars, coVars, quad>>

-----------------------------------------------------------------------------
\* physics/triggers.py: a trigger zone with enter, stay and exit hooks.
\*
\* World of one trigger zone (phys.phase = "trigger"):
\*   sys        the bodies and circle colliders (a System); collider 1 is the zone
\*   trig       the TriggerCollider: stay_hooks, enter_hooks, exit_hooks (lists),
\*              closure (hook -> what its remove_hook closure holds) and
\*              previous (the colliders that touched the zone in the last step)
\*   frames     update calls made
\*   fired      bag of the hook invocations <<hook, other_collider>> of the last step
\*   total      invocations ever made, per hook and other collider
\*   regFrame   the frame count at which each hook was registered (-1: never)
\*   firedSub   the hooks that were registered and not removed when the last step ran
\*   before, before2   sys at the start of the last step and of the one before

MaxFrames == 5      \* physics steps taken on the world of the trigger zone

\* The hooks the game registers: 1 through on_trigger_enter, 2 through
\* on_trigger_stay, 3 through on_trigger_exit.
TriggerHooks == {1, 2, 3}
Zone == 1

\* TriggerCollider.__init__
NewTrigger ==
    [stay_hooks |-> <<>>, enter_hooks |-> <<>>, exit_hooks |-> <<>>,
     closure |-> << >>, previous |-> {}, is_destroyed |-> FALSE]

\* TriggerCollider.__make_hook: hook_list.append(hook), and the closure
\* remove_hook with its did_remove flag.
MakeHook(t, hook_list, hook) ==
    [t EXCEPT ![hook_list] = Append(@, hook),
              !.closure = (hook :> [hook_list |-> hook_list, did_remove |-> FALSE]) @@ @]

\* TriggerCollider.on_trigger_stay
OnTriggerStay(t, hook) == MakeHook(t, "stay_hooks", hook)

\* The variant that files an enter hook with the stay hooks.
OnTriggerEnterAsStay(t, hook) == MakeHook(t, "stay_hooks", hook)

\* TriggerCollider.on_trigger_enter
OnTriggerEnter(t, hook) == MakeHook(t, "enter_hooks", hook)

\* TriggerCollider.on_trigger_exit
OnTriggerExit(t, hook) == MakeHook(t, "exit_hooks", hook)

\* hook_list.remove(hook): the first occurrence goes.
ListRemove(list, hook) ==
    LET i == CHOOSE j \in 1..Len(list) : list[j] = hook /\ \A k \in 1..(j - 1) : list[k] # hook
    IN  RemoveAt(list, i)

\* The closure remove_hook returned by __make_hook.
RemoveHook(t, hook) ==
    LET c == t.closure[hook]
    IN  IF c.did_remove THEN t
        ELSE [t EXCEPT ![c.hook_list] = ListRemove(@, hook),
                       !.closure[hook].did_remove = TRUE]

\* Step 2 of update: the colliders whose circle overlaps the zone's.
Touching(s, t) == {c \in s.circles \ {t} : AabbIntersects(s, t, c) /\ Overlaps(s, t, c)}

\* How often a list holds a hook.
Copies(list, hook) == Cardinality({j \in 1..Len(list) : list[j] = hook})

\* Step 4 of update, trigger diffing: exit hooks for the colliders present
\* only in the last frame, enter hooks for those present only in this frame,
\* stay hooks for those present in both.
DiffCount(t, touching, hook, c) ==
    (IF c \in t.previous \ touching THEN Copies(t.exit_hooks, hook) ELSE 0)
    + (IF c \in touching \ t.previous THEN Copies(t.enter_hooks, hook) ELSE 0)
    + (IF c \in touching \cap t.previous THEN Copies(t.stay_hooks, hook) ELSE 0)

TriggerDiff(t, touching) ==
    LET D == {hc \in TriggerHooks \X (touching \cup t.previous) : DiffCount(t, touching, hc[1], hc[2]) > 0}
    IN  [hc \in D |-> DiffCount(t, touching, hc[1], hc[2])]

\* Step 5 of update: every body moves by velocity * delta_time.
Integrate(s, delta_time) ==
    [s EXCEPT !.body = [b \in DOMAIN s.body |->
                           IF b \in s.bodies
                           THEN [s.body[b] EXCEPT !.x = RAdd(@, RMul(s.body[b].vx, delta_time)),
                                                  !.y = RAdd(@, RMul(s.body[b].vy, delta_time))]
                           ELSE s.body[b]]]

\* update(delta_time) for the world of the zone: the touching set, the
\* diffing, the roll of this frame's set into "previous", the integration.
\* (The bodies of this world never touch each other: nothing bounces.)
TriggerUpdate(w, delta_time) ==
    LET touching == Touching(w.sys, Zone)
        f == TriggerDiff(w.trig, touching)
    IN  [w EXCEPT !.trig.previous = touching,
                  !.fired = f,
                  !.total = [h \in TriggerHooks |-> [c \in DOMAIN w.sys.coll |->
                                w.total[h][c] + CopiesIn(<<h, c>>, f)]],
                  !.firedSub = {h \in TriggerHooks :
                                   w.regFrame[h] >= 0 /\ ~w.trig.closure[h].did_remove},
                  !.before2 = w.before,
                  !.before = w.sys,
                  !.sys = Integrate(w.sys, delta_time),
                  !.frames = @ + 1]

\* The worlds: the zone of radius 4 at the origin; a circle of radius 1
\* that crosses it on the x axis; a second one on the line y = 3 that rests
\* inside, rests outside, or leaves or enters to the left.
TriggerBodies ==
    {<<NewBody(<<x1, 0>>, <<3, 0>>, Int2R(1), {}), NewBody(<<x2, 3>>, <<v2, 0>>, Int2R(1), {})>> :
        x1 \in {-6, -3}, x2 \in {0, 6}, v2 \in {0, -3}}

TriggerInputs ==
    {[phase |-> "trigger",
      sys |-> System(bs, <<[kind |-> "trigger", x |-> Zero, y |-> Zero, radius |-> Int2R(4),
                            hooks |-> {}],
                           CircleCollider(1, 1), CircleCollider(2, 1)>>),
      trig |-> NewTrigger, frames |-> 0, fired |-> EmptyBag,
      total |-> [h \in TriggerHooks |-> [c \in 1..3 |-> 0]],
      regFrame |-> [h \in TriggerHooks |-> -1], firedSub |-> {},
      before |-> "none", before2 |-> "none"] : bs \in TriggerBodies}

\* trigger_zone.on_trigger_enter(handle_trigger_enter)
RegisterEnter ==
    /\ phys.phase = "trigger"
    /\ phys.regFrame[1] = -1
    /\ phys' = [phys EXCEPT !.trig = OnTriggerEnter(@, 1), !.regFrame[1] = phys.frames]
    /\ UNCHANGED <<codeVars, stack, histVars, coVars, quad>>

\* trigger_zone.on_trigger_stay(hook)
RegisterStay ==
    /\ phys.phase = "trigger"
    /\ phys.regFrame[2] = -1
    /\ phys' = [phys EXCEPT !.trig = OnTriggerStay(@, 2), !.regFrame[2] = phys.frames]
    /\ UNCHANGED <<codeVars, stack, histVars, coVars, quad>>

\* trigger_zone.on_trigger_exit(hook)
RegisterExit ==
    /\ phys.phase = "trigger"
    /\ phys.regFrame[3] = -1
    /\ phys' = [phys EXCEPT !.trig = OnTriggerExit(@, 3), !.regFrame[3] = phys.frames]
    /\ UNCHANGED <<codeVars, stack, histVars, coVars, quad>>

\* A call of the function on_trigger_... returned.
CallRemoveHook ==
    /\ phys.phase = "trigger"
    /\ \E h \in TriggerHooks :
          /\ phys.regFrame[h] >= 0
          /\ phys' = [phys EXCEPT !.trig = RemoveHook(@, h)]
    /\ UNCHANGED <<codeVars, stack, histVars, coVars, quad>>

\* physics.update(delta_time) on the world of the zone
TriggerStep ==
    /\ phys.phase = "trigger"
    /\ phys.frames < MaxFrames
    /\ phys' = TriggerUpdate(phys, Int2R(1))
    /\ UNCHANGED <<codeVars, stack, histVars, coVars, quad>>

-----------------------------------------------------------------------------
\* The lives of the physics components of one entity, for the classes of
\* physics/physics.py and for those of physics/physics_body.py with
\* physics/triggers.py.
\*
\* World (phys.phase = "life"):
\*   variant     which classes are in use
\*   parts       the components in the order they were created; each is a
\*               body (is_destroyed, colliders), a regular collider (body;
\*               did_unsubscribe of the closure on_destroy returned) or a
\*               trigger (is_destroyed)
\*   bodies, circles    PhysicsSystem._bodies and ._circle_colliders
\*   is_destroyed, hooks    the entity's flag and its destroy hooks: the
\*               components whose destroy method is subscribed, in order
\*   error       the exception that escaped, or "none"
\*   calls       how often destroy() was entered, per component
\*   second      for every destroy() entered on a component it had been
\*               entered on before: whether it was a no-op
\*   lastOp      the operation the game made last, and whether an entity
\*               that was alive was destroyed by it

MaxParts == 4       \* physics components ever created on the entity
MaxCalls == 2       \* destroy() calls the game makes on one component

LifeVariants == {"physics/physics.py", "physics/physics_body.py"}

\* What a destroy() may change: the system's sets, the entity's destroy
\* hooks, the collider sets of the bodies, and the exception raised.
Observable(w) ==
    <<w.bodies, w.circles, w.hooks, w.error,
      [p \in DOMAIN w.parts |-> IF w.parts[p].kind = "body" THEN w.parts[p].colliders ELSE {}]>>

\* GameObject.add_destroy_hook(hook): the hook joins the destroy hooks.
AddDestroyHook(w, p) == [w EXCEPT !.hooks = Append(@, p)]

\* GameObject.remove_destroy_hook(hook): the hook leaves the destroy hooks.
RemoveDestroyHook(w, p) == [w EXCEPT !.hooks = ListRemove(@, p)]

\* GameObject.on_destroy(hook): HookList.append; the closure's flag lives
\* with the component that keeps the closure.
OnDestroy(w, p) == [w EXCEPT !.hooks = Append(@, p)]

\* The closure unsubscribe returned by HookList.append.
RemoveOwnHook(w, p) ==
    IF w.parts[p].did_unsubscribe THEN w
    ELSE [w EXCEPT !.parts[p].did_unsubscribe = TRUE, !.hooks = ListRemove(@, p)]

\* _CircleColliderMixin.destroy up to super().destroy():
\* self._system._circle_colliders.remove(self)
MixinDestroy(w, c) ==
    IF c \in w.circles THEN [w EXCEPT !.circles = @ \ {c}] ELSE [w EXCEPT !.error = "KeyError"]

\* RegularCollider.destroy of physics/physics.py
RegularDestroy(w, c) == [w EXCEPT !.parts[w.parts[c].body].colliders = @ \ {c}]

\* RegularCollider.destroy of physics/physics_body.py
RegularDestroyBody(w, c) ==
    RemoveOwnHook([w EXCEPT !.parts[w.parts[c].body].colliders = @ \ {c}], c)

\* TriggerCollider.destroy (physics/physics.py and physics/triggers.py)
TriggerDestroy(w, c) ==
    IF ~w.parts[c].is_destroyed
    THEN [RemoveDestroyHook(w, c) EXCEPT !.parts[c].is_destroyed = TRUE]
    ELSE w

\* collider.destroy() along the method resolution order of the collider's
\* class: CircleCollider and CircleTriggerCollider start in the mixin.
ColliderDestroy(w, c) ==
    LET m == MixinDestroy(w, c)
    IN  IF w.error # "none" THEN w
        ELSE IF w.variant = "physics/physics.py"
        THEN IF m.error # "none" THEN m
             ELSE IF w.parts[c].kind = "regular" THEN RegularDestroy(m, c) ELSE TriggerDestroy(m, c)
        ELSE IF w.parts[c].kind = "regular" THEN RegularDestroyBody(w, c) ELSE TriggerDestroy(w, c)

\* The history of a destroy() call: r is the world the call of p left.
Entered(w, r, p) ==
    [r EXCEPT !.calls[p] = @ + 1,
              !.second = IF w.calls[p] >= 1
                         THEN @ \cup {<<p, Observable(r) = Observable(w)>>}
                         ELSE @]

\* for collider in colliders: collider.destroy()
RECURSIVE DestroyColliders(_, _, _)
DestroyColliders(w, colliders, i) ==
    IF i > Len(colliders) \/ w.error # "none" THEN w
    ELSE DestroyColliders(Entered(w, ColliderDestroy(w, colliders[i]), colliders[i]),
                          colliders, i + 1)

\* PhysicsBody.destroy
BodyDestroy(w, b) ==
    LET w1 == [w EXCEPT !.parts[b].is_destroyed = TRUE, !.bodies = @ \ {b}]
        w2 == IF w.variant = "physics/physics.py" THEN RemoveDestroyHook(w1, b)
              ELSE RemoveOwnHook(w1, b)
    IN  IF w.error # "none" \/ w.parts[b].is_destroyed THEN w
        ELSE DestroyColliders(w2, Ascending(w.parts[b].colliders), 1)

\* self.destroy of the component p, as a destroy hook or called by the game
PartDestroy(w, p) ==
    Entered(w, IF w.parts[p].kind = "body" THEN BodyDestroy(w, p) ELSE ColliderDestroy(w, p), p)

\* HookList.run_hooks over the snapshot of the listeners
RECURSIVE RunDestroyHooks(_, _, _)
RunDestroyHooks(w, snapshot, i) ==
    IF i > Len(snapshot) \/ w.error # "none" THEN w
    ELSE RunDestroyHooks(PartDestroy(w, snapshot[i]), snapshot, i + 1)

\* _GameObject.destroy
EntityDestroy(w) ==
    IF w.is_destroyed THEN w
    ELSE RunDestroyHooks([w EXCEPT !.is_destroyed = TRUE], w.hooks, 1)

\* PhysicsBody.__init__
BodyInit(w) ==
    LET b == Len(w.parts) + 1
        w1 == [w EXCEPT !.parts = Append(@, [kind |-> "body", is_destroyed |-> FALSE,
                                             colliders |-> {}, did_unsubscribe |-> FALSE]),
                        !.calls = Append(@, 0)]
    IN  IF w.variant = "physics/physics.py"
        THEN AddDestroyHook([w1 EXCEPT !.bodies = @ \cup {b}], b)
        ELSE OnDestroy(w1, b)

\* PhysicsBody.add_circle_collider, with the __init__ of the collider
AddCircleCollider(w, b) ==
    LET c == Len(w.parts) + 1
        w1 == [w EXCEPT !.parts = Append(@, [kind |-> "regular", body |-> b,
                                             did_unsubscribe |-> FALSE]),
                        !.calls = Append(@, 0)]
        w2 == IF w.variant = "physics/physics.py"
              THEN [w1 EXCEPT !.circles = @ \cup {c}]
              ELSE OnDestroy(w1, c)
    IN  [w2 EXCEPT !.parts[b].colliders = @ \cup {c}]

\* PhysicsSystem.new_circle_body
NewCircleBody(w) == AddCircleCollider(BodyInit(w), Len(w.parts) + 1)

\* PhysicsSystem.new_circle_trigger
NewCircleTrigger(w) ==
    LET c == Len(w.parts) + 1
        w1 == [w EXCEPT !.parts = Append(@, [kind |-> "trigger", is_destroyed |-> FALSE]),
                        !.calls = Append(@, 0)]
    IN  AddDestroyHook(IF w.variant = "physics/physics.py"
                       THEN [w1 EXCEPT !.circles = @ \cup {c}] ELSE w1, c)

LifeInputs ==
    {[phase |-> "life", variant |-> v, parts |-> <<>>, bodies |-> {}, circles |-> {},
      is_destroyed |-> FALSE, hooks |-> <<>>, error |-> "none", calls |-> <<>>,
      second |-> {}, lastOp |-> <<"none", FALSE>>] : v \in LifeVariants}

\* The game makes a call on a world no exception has escaped from.
Alive == phys.phase = "life" /\ phys.error = "none"
Op(w, name) == [w EXCEPT !.lastOp = <<name, FALSE>>]

\* system.new_circle_body(...)
CreateBody ==
    /\ Alive
    /\ Len(phys.parts) + 2 <= MaxParts
    /\ phys' = Op(NewCircleBody(phys), "new_circle_body")
    /\ UNCHANGED <<codeVars, stack, histVars, coVars, quad>>

\* body.add_circle_collider(radius)
CreateCollider ==
    /\ Alive
    /\ Len(phys.parts) + 1 <= MaxParts
    /\ \E b \in DOMAIN phys.parts :
          /\ phys.parts[b].kind = "body"
          /\ phys' = Op(AddCircleCollider(phys, b), "add_circle_collider")
    /\ UNCHANGED <<codeVars, stack, histVars, coVars, quad>>

\* system.new_circle_trigger(...)
CreateTrigger ==
    /\ Alive
    /\ Len(phys.parts) + 1 <= MaxParts
    /\ phys' = Op(NewCircleTrigger(phys), "new_circle_trigger")
    /\ UNCHANGED <<codeVars, stack, histVars, coVars, quad>>

\* body.destroy(), collider.destroy() or trigger_zone.destroy(), called by the game
DestroyPart ==
    /\ Alive
    /\ \E p \in DOMAIN phys.parts :
          /\ phys.calls[p] < MaxCalls
          /\ phys' = Op(PartDestroy(phys, p), "destroy")
    /\ UNCHANGED <<codeVars, stack, histVars, coVars, quad>>

\* game_object.destroy()
DestroyEntity ==
    /\ Alive
    /\ phys' = [EntityDestroy(phys) EXCEPT !.lastOp = <<"game_object.destroy", ~phys.is_destroyed>>]
    /\ UNCHANGED <<codeVars, stack, histVars, coVars, quad>>

-----------------------------------------------------------------------------
InitState(n, gen, q, p) ==
    /\ created = n
    /\ live = 1..n
    /\ liveM = 1..n
    /\ isDestroyed = [e \in Objects |-> FALSE]
    /\ listeners = [e \in Objects |-> [k \in HookKinds |-> <<>>]]
    /\ closures = <<>>
    /\ removeParentHook = [e \in Objects |-> None]
    /\ error = "none"
    /\ stack = <<>>
    /\ passes = 0
    /\ parentOf = [e \in Objects |-> None]
    /\ runs = [e \in Objects |-> 0]
    /\ bornIn = [e \in Objects |-> 0]
    /\ co = NewCoroutine(gen)
    /\ resumes = <<>>
    /\ events = {}
    /\ now = 0
    /\ sched = <<>>
    /\ quad = q
    /\ phys = p

NoPhys == [phase |-> "none"]

InitGen(n, gen) == InitState(n, gen, NoQuad, NoPhys)

InitWith(n) == InitGen(n, "later")

\* Nothing was created yet.
Init == InitWith(0)

\* The destroy cascade: destroy hooks, set_parent and destroy.
Next ==
    \/ NewObject
    \/ \E e \in 1..created, cb \in DestroyHooks : Subscribe(e, "destroy", cb, MaxSubs)
    \/ \E s \in 1..Len(closures) : Unsubscribe(s)
    \/ \E c \in 1..created, p \in 0..created : SetParent(c, p)
    \/ \E e \in 1..created : Destroy(e)
    \/ InvokeHook(MaxSubs)
    \/ Return

Spec == Init /\ [][Next]_vars

\* The update broadcast: update hooks that create and destroy GameObjects.
NextUpdate ==
    \/ NewObject
    \/ \E e \in 1..created, cb \in UpdateHooks : Subscribe(e, "update", cb, MaxSubs)
    \/ \E e \in 1..created : Destroy(e)
    \/ Update
    \/ PassNext
    \/ InvokeHook(MaxSubs)
    \/ Return

SpecUpdate == Init /\ [][NextUpdate]_vars

\* Destroy hooks subscribed late: by the user or by set_parent after the
\* GameObject was destroyed, or by a destroy hook while the hooks run.
LateHooks == {UserFn(1), AppendFn} \cup {DestroyFn(e) : e \in 1..created}

NextLate ==
    \/ NewObject
    \/ \E e \in 1..created, cb \in LateHooks : Subscribe(e, "destroy", cb, MaxSubs)
    \/ \E c \in 1..created, p \in 0..created : SetParent(c, p)
    \/ \E e \in 1..created : Destroy(e)
    \/ InvokeHook(MaxSubs)
    \/ Return

SpecLate == Init /\ [][NextLate]_vars

\* set_parent links alone, cycles among them, and destroy(); a destroy()
\* that was called goes on until it returns, as sequential code does.
NextCycle ==
    \/ NewObject
    \/ \E c \in 1..created, p \in 0..created : SetParent(c, p)
    \/ \E e \in 1..created : Destroy(e)
    \/ InvokeHook(MaxSubs)
    \/ Return

SpecCycle ==
    Init /\ [][NextCycle]_vars /\ WF_vars(InvokeHook(MaxSubs)) /\ WF_vars(Return)

\* One HookList, the update hooks of the first GameObject, run by update().
\* The state after one new_object() call.
InitHooks == InitWith(1)

NextHooks ==
    \/ \E cb \in ListHooks : Subscribe(1, "update", cb, MaxHooks)
    \/ \E s \in 1..Len(closures) : Unsubscribe(s)
    \/ Update
    \/ PassNext
    \/ InvokeHook(MaxHooks)
    \/ Return

SpecHooks == InitHooks /\ [][NextHooks]_vars

\* One coroutine attached to the first GameObject, its update hooks and the
\* wait instructions of resume_later.  The state after new_object() and
\* GameObjectCoroutine(game_object, generator).
InitCo == InitWith(1)

NextCo ==
    \/ \E cb \in CoHooks : Subscribe(1, "update", cb, MaxCoSubs)
    \/ CoStart
    \/ CoSuspend
    \/ \E r \in 1..Len(resumes) : CoResume(r)
    \/ Destroy(1)
    \/ Update
    \/ PassNext
    \/ InvokeHook(MaxCoSubs)
    \/ Return

SpecCo == InitCo /\ [][NextCo]_vars

\* The coroutine of a GameObject that an update hook destroys: update hooks
\* that destroy the GameObject or call a resume callback.
CoDestroyHooks == {DestroyFn(1)} \cup {ResumeFn(r) : r \in 1..MaxWaits}

NextCoDestroy ==
    \/ \E cb \in CoDestroyHooks : Subscribe(1, "update", cb, MaxCoSubs)
    \/ CoStart
    \/ \E r \in 1..Len(resumes) : CoResume(r)
    \/ Destroy(1)
    \/ Update
    \/ PassNext
    \/ InvokeHook(MaxCoSubs)
    \/ Return

SpecCoDestroy == InitCo /\ [][NextCoDestroy]_vars

\* A coroutine whose generator waits with resume_after, and the timer.
InitTimer == InitGen(1, "after")

NextTimer ==
    \/ CoStart
    \/ CoSuspend
    \/ RunCallbacks
    \/ PumpStep
    \/ Tick
    \/ Destroy(1)
    \/ Update
    \/ PassNext
    \/ InvokeHook(MaxCoSubs)
    \/ Return

SpecTimer == InitTimer /\ [][NextTimer]_vars

\* GameTime alone: callbacks that change nothing or schedule themselves again.
TimeCallbacks == {UserFn(1)} \cup {AgainFn(d) : d \in Delays}

NextGameTime ==
    \/ \E d \in Delays, cb \in TimeCallbacks : Schedule(d, cb)
    \/ RunCallbacks
    \/ PumpStep
    \/ Tick
    \/ Return

SpecGameTime == Init /\ [][NextGameTime]_vars

\* The quadtree on its own: every list of up to MaxColliders boxes, built
\* and then queried.
InitQuadtree == \E q \in QuadInputs : InitState(0, "later", q, NoPhys)

NextQuadtree ==
    \/ Construct
    \/ GetNearbyPairs

SpecQuadtree == InitQuadtree /\ [][NextQuadtree]_vars

\* The physics step on its own, for both physics systems.
InitPhysics == \E p \in PhysInputs : InitState(0, "later", NoQuad, p)

NextPhysics ==
    \/ PhysicsStep
    \/ PhysicsStepOld

SpecPhysics == InitPhysics /\ [][NextPhysics]_vars

\* The physics step of physics/physics.py with hooks that destroy GameObjects.
InitHookDestroys == \E p \in DestroyInputs : InitState(0, "later", NoQuad, p)

NextHookDestroys == PhysicsStep

SpecHookDestroys == InitHookDestroys /\ [][NextHookDestroys]_vars

\* The physics step with a hook that registers a hook, for both systems.
InitHookAdds == \E p \in AddInputs : InitState(0, "later", NoQuad, p)

SpecHookAdds == InitHookAdds /\ [][NextPhysics]_vars

\* The trigger zone on its own.
InitTrigger == \E p \in TriggerInputs : InitState(0, "later", NoQuad, p)

NextTrigger ==
    \/ RegisterEnter
    \/ RegisterStay
    \/ RegisterExit
    \/ CallRemoveHook
    \/ TriggerStep

SpecTrigger == InitTrigger /\ [][NextTrigger]_vars

\* The lives of the physics components on their own.
InitLife == \E p \in LifeInputs : InitState(0, "later", NoQuad, p)

NextLife ==
    \/ CreateBody
    \/ CreateCollider
    \/ CreateTrigger
    \/ DestroyPart
    \/ DestroyEntity

SpecLife == InitLife /\ [][NextLife]_vars

-----------------------------------------------------------------------------
\* Properties.

Frames == {stack[n] : n \in 1..Len(stack)}
HookFrames == {f \in Frames : f.op \in {"destroy", "run"}}
Cbs(seq) == [j \in 1..Len(seq) |-> seq[j].cb]
Count(seq, cb) == Cardinality({j \in 1..Len(seq) : seq[j].cb = cb})

\* The top frame is about to invoke a hook / is about to return.
Pending(f) == stack # <<>> /\ f = Top /\ f.op \in {"destroy", "run"} /\ f.i <= Len(RunList(f))
Returning(f) == stack # <<>> /\ f = Top /\ f.op \in {"destroy", "run"} /\ f.i > Len(RunList(f))

\* The subscriptions of list (e, k) that were not unsubscribed.
Active(e, k) ==
    {s \in 1..Len(closures) :
        closures[s].obj = e /\ closures[s].kind = k /\ ~closures[s].did}

\* C1: destroy() is idempotent.  The destroy hooks of a GameObject are run at
\* most once however often and from wherever destroy() is called (runs), the
\* one run invokes the hooks subscribed at the first call, each once and in
\* order (invoked against start), destroy() of one GameObject is never active
\* twice, and nothing is raised.
C1_DestroyIdempotent ==
    /\ error = "none"
    /\ \A e \in Objects : runs[e] = IF isDestroyed[e] THEN 1 ELSE 0
    /\ \A f \in Frames : f.op = "destroy" =>
            /\ f.invoked = SubSeq(Cbs(f.start), 1, f.i - 1)
            /\ Returning(f) => f.invoked = Cbs(f.start)
    /\ \A m, n \in 1..Len(stack) :
            stack[m].op = "destroy" /\ stack[n].op = "destroy" /\ stack[m].e = stack[n].e
                => m = n

\* C1 witness: destroy() is about to return after one of its own hooks called
\* destroy() of the same GameObject again.
C1_Witness ==
    \E f \in Frames :
        /\ f.op = "destroy"
        /\ Returning(f)
        /\ \E j \in 1..Len(f.invoked) : f.invoked[j] = DestroyFn(f.e)

\* All destroy hooks of c have run: c is marked destroyed and no destroy() of
\* c is still in its loop.
HooksDone(c) ==
    /\ isDestroyed[c]
    /\ \A g \in Frames : g.op = "destroy" /\ g.e = c => Returning(g)

\* The live sets as they are when destroy() of frame f returns: game_objects.py
\* discards the object as the last statement before the return.
LiveAtReturn(f) == live \cup (liveM \ {f.e})

\* C2 as stated: when destroy() of a parent returns, every child whose
\* set_parent was in effect at the call is destroyed: its destroy hooks have
\* run and it is in no live set.
C2_AsStated ==
    \A f \in Frames : f.op = "destroy" /\ Returning(f) =>
        \A c \in f.kids : HooksDone(c) /\ c \notin LiveAtReturn(f)

\* C2 amended: when an effective destroy() of a parent returns, every child
\* whose set_parent was in effect at the call is marked destroyed, and unless
\* the child's own destroy() was already running at the call its destroy hooks
\* have run and it is in no live set.
C2_Cascade ==
    \A f \in Frames : f.op = "destroy" /\ Returning(f) =>
        \A c \in f.kids :
            /\ isDestroyed[c]
            /\ c \notin f.busy => HooksDone(c) /\ c \notin LiveAtReturn(f)

\* C2 witness: the parent's destroy() is about to return and destroyed another
\* GameObject, a child that was alive at the call.
C2_Witness ==
    \E f \in Frames :
        /\ f.op = "destroy"
        /\ Returning(f)
        /\ \E c \in f.kids \ (f.busy \cup {f.e}) :
                HooksDone(c) /\ c \notin LiveAtReturn(f)

\* C3: when a destroy hook of a GameObject is about to be invoked, the
\* GameObject is in no live set (of either variant of the entity module).
C3_HooksAfterRemoval ==
    \A f \in Frames : f.op = "destroy" /\ Pending(f) => f.e \notin live \cup liveM

\* The callbacks of the subscriptions of list (e, k) that were not
\* unsubscribed, in the order they were subscribed.
RECURSIVE ActiveCbs(_, _, _)
ActiveCbs(e, k, n) ==
    IF n = 0 THEN <<>>
    ELSE IF n \in Active(e, k)
         THEN Append(ActiveCbs(e, k, n - 1), closures[n].cb)
         ELSE ActiveCbs(e, k, n - 1)

\* C4: run_hooks works on a snapshot.  In every run the hooks invoked so far
\* are the first hooks of the list as it was when the run started, whatever
\* running hooks subscribed or unsubscribed meanwhile; the run returns only
\* after invoking all of them; and a run that starts takes the list as it is
\* then, which holds every callback as often as it is subscribed at that time.
C4_Snapshot ==
    \A f \in HookFrames :
        /\ Len(f.invoked) <= Len(f.start)
        /\ f.invoked = SubSeq(Cbs(f.start), 1, Len(f.invoked))
        /\ Returning(f) => f.invoked = Cbs(f.start)
        /\ f = Top /\ f.invoked = <<>> =>
                \A j \in 1..Len(f.start) :
                    Count(f.start, f.start[j].cb)
                        = Cardinality({s \in Active(f.e, FrameKind(f)) :
                                        closures[s].cb = f.start[j].cb})

\* C4 witness: a run is about to return after one of its hooks subscribed a
\* hook and one unsubscribed a hook that the run then still invoked.
C4_Witness ==
    \E f \in HookFrames :
        /\ Returning(f)
        /\ \E j \in 1..Len(f.invoked) : f.invoked[j] = AppendFn
        /\ \E j, m \in 1..Len(f.start) :
                /\ j < m
                /\ f.start[j].cb.kind = "unsub"
                /\ f.start[j].cb.arg = f.start[m].sub
        /\ Len(listeners[f.e][FrameKind(f)]) = Len(f.start)

\* C5: the unsubscribe function is idempotent and removes its own
\* subscription only: nothing is raised, and every hook list holds, in the
\* order they were subscribed, exactly the callbacks of the subscriptions
\* whose unsubscribe function was not called.
C5_UnsubscribeOwn ==
    /\ error = "none"
    /\ \A e \in 1..created, k \in HookKinds :
            Cbs(listeners[e][k]) = ActiveCbs(e, k, Len(closures))

\* C6: update() iterates a snapshot of the live set.  A GameObject created
\* while a pass is running receives no update() in that pass; a pass gives
\* update() only to GameObjects that were live when it began and returns only
\* when every one of them received it; and between calls the live sets hold
\* exactly the GameObjects that are created and not destroyed.
C6_UpdateSnapshot ==
    /\ Idle => /\ live = {e \in 1..created : ~isDestroyed[e]}
               /\ liveM = live
    /\ \A f \in Frames : f.op = "update" =>
            /\ \A e \in f.done : bornIn[e] # passes
            /\ f.done \subseteq f.kids
            /\ f = Top /\ PassPending(f) = {} => f.done = f.kids

\* C6 witness: the second pass is about to return and gave update() to a
\* GameObject that was created during the first pass.
C6_Witness ==
    \E f \in Frames :
        /\ f.op = "update"
        /\ f = Top
        /\ PassPending(f) = {}
        /\ passes = 2
        /\ \E e \in f.done : bornIn[e] = 1

\* C7: no update hook of a GameObject is invoked once destroy() was called
\* on it.
C7_NoUpdateAfterDestroy ==
    \A f \in Frames : f.op = "run" /\ Pending(f) => ~isDestroyed[f.e]

CoRunning(c) == c.started /\ ~c.isSuspended /\ ~c.isYielding /\ ~c.isDone

\* C9: the first start() runs the generator at once (a coroutine that was
\* started has run a slice, one that was not has run none); a coroutine that
\* is neither suspended nor waiting nor done is subscribed to the updates of
\* its GameObject exactly once; and an update of the GameObject that begins
\* while the coroutine is in that state advances the generator by exactly one
\* slice.
C9_UpdateAdvancesOneSlice ==
    /\ co.started <=> co.steps >= 1
    /\ CoRunning(co) => Count(listeners[co.obj]["update"], CoFn) = 1
    /\ \A f \in Frames : f.op = "run" /\ f.e = co.obj /\ CoRunning(f.co0) =>
            /\ co.steps <= f.co0.steps + 1
            /\ Returning(f) => co.steps = f.co0.steps + 1

\* C9 witness: the second update pass is about to return from the update of
\* the GameObject, and both passes advanced the generator by one slice.
C9_Witness ==
    \E f \in Frames :
        /\ f.op = "run"
        /\ f.e = co.obj
        /\ Returning(f)
        /\ CoRunning(f.co0)
        /\ passes = 2
        /\ f.co0.steps = 2
        /\ co.steps = 3

\* C10: while the coroutine waits on a wait instruction, that is from the
\* moment the instruction was applied until its resume callback is invoked
\* for the first time, no step advances the generator.
C10_NoAdvanceWhileWaiting ==
    [][(co.wait # None /\ ~resumes[co.wait].called) => co'.steps = co.steps]_vars

\* C10 witness: an update of the GameObject that began while the coroutine was
\* waiting has invoked a hook and is about to return, the resume callback was
\* not invoked yet, and the generator did not advance.
C10_Witness ==
    \E f \in Frames :
        /\ f.op = "run"
        /\ f.e = co.obj
        /\ Returning(f)
        /\ Len(f.invoked) >= 1
        /\ f.co0.isYielding
        /\ co.isYielding
        /\ co.wait = f.co0.wait
        /\ ~resumes[co.wait].called
        /\ co.steps = f.co0.steps

\* C11: from suspend() until the next start() no step advances the generator
\* (the rest of an update pass during which suspend() was called included),
\* and the start() that ends the suspension runs no slice itself: while the
\* coroutine is started and suspended, the count of slices does not change.
C11_NoAdvanceWhileSuspended ==
    [][(co.started /\ co.isSuspended) => co'.steps = co.steps]_vars

\* C12: once the GameObject of a started coroutine is destroyed, no step
\* advances the generator: not the update pass in progress, and no update
\* after a resume callback or a timer fired.
C12_NoAdvanceAfterDestroy ==
    [][(co.started /\ isDestroyed[co.obj]) => co'.steps = co.steps]_vars

\* The coroutine waits on a resume_after that the timer did not fire yet.
TimedWait ==
    /\ co.wait # None
    /\ ~resumes[co.wait].kept
    /\ ~resumes[co.wait].called

Deadline(r) == resumes[r].at + resumes[r].delay

\* run_callbacks of frame f is about to return.
PumpReturning(f) ==
    stack # <<>> /\ f = Top /\ f.op = "pump" /\ (f.i = 2 \/ events = {})

\* The deadline of the resume_after the coroutine waits on had come when
\* run_callbacks of frame f began.
WaitDueAt(f) ==
    /\ co.wait # None
    /\ ~resumes[co.wait].kept
    /\ co.wait = f.co0.wait
    /\ Deadline(co.wait) <= f.clock

\* C13 as stated: no slice runs while the coroutine waits on resume_after and
\* the clock is before the deadline, and the first run_callbacks at or after
\* the deadline runs the next slice.
C13_AsStated ==
    [][/\ (TimedWait /\ now < Deadline(co.wait)) => co'.steps = co.steps
       /\ \A f \in Frames : (PumpReturning(f) /\ WaitDueAt(f)) =>
                co.steps = f.co0.steps + 1]_vars

\* C13 amended: while the coroutine waits on resume_after no step runs a
\* slice; the resume callback is invoked only when the clock is at or after
\* the deadline; a run_callbacks that begins at or after the deadline has
\* invoked it when it returns; invoking it runs no slice but ends the wait
\* and, unless the coroutine is suspended, subscribes it to the updates of
\* its GameObject again (the next slice runs with the next update).
C13_ResumeAfter ==
    [][/\ TimedWait =>
            /\ co'.steps = co.steps
            /\ resumes'[co.wait].called =>
                /\ now >= Deadline(co.wait)
                /\ ~co'.isYielding
                /\ Count(listeners'[co.obj]["update"], CoFn)
                        = IF co.isSuspended THEN 0 ELSE 1
       /\ \A f \in Frames : (PumpReturning(f) /\ WaitDueAt(f)) =>
                /\ resumes[co.wait].called
                /\ co.steps = f.co0.steps]_vars

\* C13 witness: the timer fired the resume callback of a resume_after with a
\* positive delay, and the update after it ran the next slice.
C13_Witness ==
    \E f \in Frames :
        /\ f.op = "run"
        /\ f.e = co.obj
        /\ Returning(f)
        /\ f.co0.wait # None
        /\ co.wait = f.co0.wait
        /\ ~resumes[co.wait].kept
        /\ resumes[co.wait].called
        /\ resumes[co.wait].delay > 0
        /\ co.steps = f.co0.steps + 1

\* C14: invoking a resume callback again changes nothing.  The coroutine is
\* subscribed to the updates of its GameObject at most once; a wait lasts
\* (the coroutine is yielding and not subscribed) until its own resume
\* callback is invoked, whatever callbacks of earlier waits are invoked
\* meanwhile; and a callback took effect exactly if it was invoked.
C14_ResumeOnce ==
    /\ Count(listeners[co.obj]["update"], CoFn) <= 1
    /\ (co.wait # None /\ ~resumes[co.wait].called) =>
            /\ co.isYielding
            /\ Count(listeners[co.obj]["update"], CoFn) = 0
    /\ \A r \in 1..Len(resumes) : resumes[r].called <=> resumes[r].did

\* C14 witness: an update that began during a later wait invoked the resume
\* callback of an earlier wait again, and the later wait goes on.
C14_Witness ==
    \E f \in Frames :
        /\ f.op = "run"
        /\ f.e = co.obj
        /\ Returning(f)
        /\ f.co0.wait # None
        /\ co.wait = f.co0.wait
        /\ ~resumes[co.wait].called
        /\ co.isYielding
        /\ \E j \in 1..Len(f.invoked) :
                /\ f.invoked[j].kind = "resume"
                /\ f.invoked[j].arg < co.wait
                /\ resumes[f.invoked[j].arg].kept

\* C15: a slice that raised an exception leaves the coroutine done for good;
\* the exception leaves every call that was in progress (no call that began
\* before it is still on the stack); no step advances the generator after
\* it; and nothing is raised a second time.
C15_ExceptionEndsCoroutine ==
    /\ error = "none"
    /\ co.raised <= 1
    /\ co.raised = 1 =>
            /\ co.isDone
            /\ co.steps = co.raisedAt
    /\ \A f \in Frames : f.co0.raised = co.raised

\* C15 witness: after a slice raised, an update invoked the update hook of
\* the coroutine and is about to return; the generator was not advanced.
C15_Witness ==
    \E f \in Frames :
        /\ f.op = "run"
        /\ f.e = co.obj
        /\ Returning(f)
        /\ f.co0.raised = 1
        /\ \E j \in 1..Len(f.invoked) : f.invoked[j] = CoFn
        /\ co.steps = co.raisedAt

\* The next hook that the run on top of the stack invokes is cb.
NextHookIs(cb) ==
    /\ Running
    /\ Top.op \in {"destroy", "run"}
    /\ Top.i <= Len(RunList(Top))
    /\ RunList(Top)[Top.i].cb = cb

\* C16: start() of a coroutine that is started and not suspended is a no-op,
\* called by the user between updates or by an update hook: it runs no slice,
\* subscribes nothing, changes no field of the coroutine and raises nothing.
C16_StartWhileRunning ==
    [][(co.started /\ ~co.isSuspended /\ (CoStart \/ NextHookIs(StartFn))) =>
            /\ co' = co
            /\ listeners' = listeners
            /\ closures' = closures
            /\ resumes' = resumes
            /\ events' = events
            /\ error' = "none"]_vars

\* C16 witness: an update hook called start() while the coroutine was started
\* and not suspended, and the coroutine is subscribed once.
C16_Witness ==
    \E f \in Frames :
        /\ f.op = "run"
        /\ f.e = co.obj
        /\ f = Top
        /\ f.invoked = <<StartFn>>
        /\ f.co0.started
        /\ ~f.co0.isSuspended
        /\ co = f.co0
        /\ Count(listeners[co.obj]["update"], CoFn) = 1

\* The event of the run_after_delay call `id` is in the heap.
Scheduled(id) == \E event \in events : event.id = id

\* C17: GameTime fires no event before its deadline, the clock at
\* run_after_delay plus delay_ms, and fires every event at most once: an
\* event that was fired is no longer in the heap, one that was not still is.
C17_FiresOnceWhenDue ==
    \A id \in 1..Len(sched) :
        /\ sched[id].fired <= 1
        /\ sched[id].fired = 1 => sched[id].firedAt >= sched[id].at + sched[id].delay
        /\ Scheduled(id) <=> sched[id].fired = 0

\* C17 witness: a run_callbacks that fired an event is about to return, and an
\* event with a positive delay that an earlier run_callbacks fired was not
\* fired again.
C17_Witness ==
    \E f \in Frames, id \in 1..Len(sched) :
        /\ PumpReturning(f)
        /\ f.invoked # <<>>
        /\ \A j \in 1..Len(f.invoked) : f.invoked[j] # id
        /\ sched[id].fired = 1
        /\ sched[id].delay > 0

\* The deadline of the event of the run_after_delay call `id`.
DeadlineOf(id) == sched[id].at + sched[id].delay

\* C18: a run_callbacks fires its events in non-decreasing order of their
\* deadlines, and when it returns every event whose deadline is at or before
\* the current time was fired and every later one is still in the heap: it
\* stopped, if at all, at an event that is not due, and none in the heap is.
C18_PumpFiresAllDue ==
    \A f \in Frames : f.op = "pump" =>
        /\ \A j, k \in 1..Len(f.invoked) :
                j < k => DeadlineOf(f.invoked[j]) <= DeadlineOf(f.invoked[k])
        /\ PumpReturning(f) =>
                /\ \A event \in events : event.time > now
                /\ \A id \in 1..Len(sched) :
                        IF DeadlineOf(id) <= now
                        THEN sched[id].fired = 1
                        ELSE Scheduled(id)
                /\ f.i = 2 => events # {}

\* C18 witness: a run_callbacks fired two events with different deadlines,
\* stopped at a third event that is not due yet, and is about to return.
C18_Witness ==
    \E f \in Frames :
        /\ PumpReturning(f)
        /\ f.i = 2
        /\ Len(f.invoked) = 2
        /\ DeadlineOf(f.invoked[1]) < DeadlineOf(f.invoked[2])
        /\ \E event \in events : event.time > now

-----------------------------------------------------------------------------
\* Quadtree properties.

Queried == quad.phase = "queried"
Built == quad.phase \in {"built", "queried"}

\* The unordered pairs of colliders whose boxes intersect, by testing all pairs.
BruteForce ==
    {{ij[1], ij[2]} : ij \in {p \in (1..Len(quad.colliders)) \X (1..Len(quad.colliders)) :
                         p[1] < p[2] /\ Intersects(quad.colliders[p[1]], quad.colliders[p[2]])}}

\* The unordered pairs in what get_nearby_pairs returned.
Returned == {{p[1], p[2]} : p \in BagToSet(quad.pairs)}

RECURSIVE Leaves(_)
Leaves(n) ==
    IF n.children = <<>> THEN {n} ELSE UNION {Leaves(n.children[k]) : k \in 1..4}

Holds(n, c) == \E i \in 1..Len(n.colliders) : n.colliders[i] = c

\* Colliders a and b are stored together in more than one leaf.
SharedLeaves(a, b) == Cardinality({n \in Leaves(quad.root) : Holds(n, a) /\ Holds(n, b)})

\* The boxes meet in an edge or a corner only.
TouchOnly(a, b) ==
    /\ Intersects(a, b)
    /\ \/ a.x_max = b.x_min \/ b.x_max = a.x_min \/ a.y_max = b.y_min \/ b.y_max = a.y_min

\* Every node of the tree below n, n included.
RECURSIVE Nodes(_)
Nodes(n) ==
    {n} \cup (IF n.children = <<>> THEN {} ELSE UNION {Nodes(n.children[k]) : k \in 1..4})

\* C35: for every non-empty list of colliders Quadtree() returns a tree; no
\* node of it is deeper than max depth, every collider is held by some leaf,
\* and only a leaf at max depth holds max load colliders or more.
C35_DepthBounded ==
    Built =>
        /\ \A n \in Nodes(quad.root) : n.depth <= MaxDepth
        /\ \A c \in 1..Len(quad.colliders) : \E n \in Leaves(quad.root) : Holds(n, c)
        /\ \A n \in Leaves(quad.root) : Len(n.colliders) >= max_load => n.depth = MaxDepth

\* Colliders with the same box went down to max depth, where one leaf
\* holds all of them, max load or more.
C35_Witness ==
    /\ Built
    /\ \A a, b \in 1..Len(quad.colliders) : quad.colliders[a] = quad.colliders[b]
    /\ \E n \in Leaves(quad.root) :
          /\ n.depth = MaxDepth
          /\ Len(n.colliders) >= max_load
          /\ Len(n.colliders) = Len(quad.colliders)

\* C19: for every non-empty list of colliders, the unordered pairs
\* get_nearby_pairs returns are exactly the pairs whose boxes intersect by
\* brute-force testing of all pairs.
C19_PairsComplete == Queried => Returned = BruteForce

\* The tree subdivided below the root's children, a collider across a split
\* line is stored in several leaves, two boxes that touch only at an edge are
\* returned as a pair, and some pair does not intersect.
C19_Witness ==
    /\ Queried
    /\ Returned = BruteForce
    /\ \E k \in 1..4 : quad.root.children # <<>> /\ quad.root.children[k].children # <<>>
    /\ \E a, b \in 1..Len(quad.colliders) :
          /\ a # b
          /\ TouchOnly(quad.colliders[a], quad.colliders[b])
          /\ {a, b} \in Returned
    /\ \E c \in 1..Len(quad.colliders) :
          Cardinality({n \in Leaves(quad.root) : Holds(n, c)}) > 1
    /\ \E a, b \in 1..Len(quad.colliders) : a # b /\ {a, b} \notin Returned

\* C20: get_nearby_pairs returns each unordered pair of colliders at most
\* once: no tuple twice, and no tuple together with its reverse.
C20_PairsOnce ==
    Queried => \A p \in BagToSet(quad.pairs) :
                  /\ CopiesIn(p, quad.pairs) = 1
                  /\ p[1] # p[2] => <<p[2], p[1]>> \notin BagToSet(quad.pairs)

\* A pair whose colliders are stored together in several leaves is returned
\* once, with the lower id() first although it was inserted later.
C20_Witness ==
    /\ Queried
    /\ \E p \in BagToSet(quad.pairs) :
          /\ SharedLeaves(p[1], p[2]) > 1
          /\ CopiesIn(p, quad.pairs) = 1
          /\ p[1] > p[2]
          /\ <<p[2], p[1]>> \notin BagToSet(quad.pairs)

-----------------------------------------------------------------------------
\* Physics step properties.  Before is the system when the last step began,
\* After the system when it returned.

IsNew == phys.variant = "physics/physics.py"
Stepped == phys.phase = "physics" /\ phys.newSteps + phys.oldSteps >= 1
After == IF IsNew THEN phys.new ELSE phys.old
Before == IF IsNew THEN phys.newBefore ELSE phys.oldBefore

Triggers == {c \in DOMAIN phys.new.coll : phys.new.coll[c].kind = "trigger"}

\* No hook writes a velocity.
TriggerQuiet == IsNew => \A c \in Triggers : \A h \in phys.new.coll[c].hooks : h.effect = "none"
Quiet == TriggerQuiet /\ \A b \in DOMAIN Before.body : \A h \in Before.body[b].hooks : h.effect = "none"

FiniteMass(s, b) == s.body[b].mass.d # 0

\* PhysicsSystem.total_momentum and kinetic_energy
TotalMomentum(s) ==
    << RAdd(RMul(s.body[1].mass, s.body[1].vx), RMul(s.body[2].mass, s.body[2].vx)),
       RAdd(RMul(s.body[1].mass, s.body[1].vy), RMul(s.body[2].mass, s.body[2].vy)) >>
KineticEnergyOf(s, b) ==
    RMul(RMul(Rat(1, 2), s.body[b].mass), RAdd(RSq(s.body[b].vx), RSq(s.body[b].vy)))
KineticEnergy(s) == RAdd(KineticEnergyOf(s, 1), KineticEnergyOf(s, 2))

Velocity(s, b) == <<s.body[b].vx, s.body[b].vy>>
SameVelocities == \A b \in DOMAIN Before.body : Velocity(After, b) = Velocity(Before, b)

\* The relative velocity of bodies 1 and 2 projected on their separation.
VDotD(s) ==
    RAdd(RMul(RSub(s.body[1].vx, s.body[2].vx), RSub(s.body[1].x, s.body[2].x)),
         RMul(RSub(s.body[1].vy, s.body[2].vy), RSub(s.body[1].y, s.body[2].y)))

\* The circles of bodies 1 and 2 overlap and their centres differ.
BodiesOverlap(s) ==
    /\ OverlapsOld(s, 1, 2)
    /\ <<s.body[1].x, s.body[1].y>> # <<s.body[2].x, s.body[2].y>>

\* C21: with finite masses and hooks that write no velocity, one step leaves
\* the total momentum and the total kinetic energy of the two bodies
\* unchanged, whether or not their collision was resolved in it.
C21_Conserves ==
    (Stepped /\ Quiet /\ FiniteMass(Before, 1) /\ FiniteMass(Before, 2)) =>
        /\ TotalMomentum(After) = TotalMomentum(Before)
        /\ KineticEnergy(After) = KineticEnergy(Before)

\* Two overlapping, approaching bodies of different finite masses, off the
\* axes, received impulses that changed both velocities.
C21_Witness ==
    /\ Stepped /\ Quiet /\ FiniteMass(Before, 1) /\ FiniteMass(Before, 2)
    /\ Before.body[1].mass # Before.body[2].mass
    /\ Before.body[2].y # Zero
    /\ BodiesOverlap(Before) /\ RLess(VDotD(Before), Zero)
    /\ After.impulses # EmptyBag
    /\ Velocity(After, 1) # Velocity(Before, 1) /\ Velocity(After, 2) # Velocity(Before, 2)
    /\ TotalMomentum(After) = TotalMomentum(Before)
    /\ KineticEnergy(After) = KineticEnergy(Before)

\* Masses 1, radius 10, centres 15 apart on the x axis, velocities (+1, 0)
\* and (-1, 0).
HeadOn(s) ==
    /\ <<s.body[1].x, s.body[1].y>> = <<Zero, Zero>>
    /\ <<s.body[2].x, s.body[2].y>> = <<Int2R(15), Zero>>
    /\ s.body[1].mass = Int2R(1) /\ s.body[2].mass = Int2R(1)
    /\ s.body[1].radius = Int2R(10) /\ s.body[2].radius = Int2R(10)
    /\ Velocity(s, 1) = <<Int2R(1), Zero>>
    /\ Velocity(s, 2) = <<Int2R(-1), Zero>>

\* C22: after one step on the head-on pair of equal masses the velocities
\* are exactly (-1, 0) and (+1, 0).
C22_HeadOnSwap ==
    (Stepped /\ Quiet /\ HeadOn(Before)) =>
        /\ Velocity(After, 1) = <<Int2R(-1), Zero>>
        /\ Velocity(After, 2) = <<Int2R(1), Zero>>

\* The head-on pair was stepped, in the system with colliders, and swapped.
C22_Witness ==
    /\ Stepped /\ Quiet /\ HeadOn(Before) /\ IsNew
    /\ After.impulses # EmptyBag
    /\ Velocity(After, 1) = <<Int2R(-1), Zero>>
    /\ Velocity(After, 2) = <<Int2R(1), Zero>>

\* C23: a step that resolves the collision of a finite-mass body with an
\* infinite-mass body leaves the velocity of the infinite-mass body unchanged.
C23_InfiniteImmovable ==
    (Stepped /\ Quiet) =>
        \A b \in {1, 2} :
            (~FiniteMass(Before, b) /\ FiniteMass(Before, 3 - b)) =>
                Velocity(After, b) = Velocity(Before, b)

\* A finite body ran into a moving body of infinite mass: impulses were
\* applied to both, only the finite body's velocity changed.
C23_Witness ==
    /\ Stepped /\ Quiet
    /\ FiniteMass(Before, 1) /\ ~FiniteMass(Before, 2)
    /\ Velocity(Before, 2) # <<Zero, Zero>>
    /\ \E p \in BagToSet(After.impulses) : p[1] = 2
    /\ Velocity(After, 1) # Velocity(Before, 1)
    /\ Velocity(After, 2) = Velocity(Before, 2)

PairBodies(p) ==
    IF IsNew THEN <<phys.new.coll[p[1]].body, phys.new.coll[p[2]].body>> ELSE p

\* C25: for each pair of bodies whose collision a step resolved, every
\* collision hook of each of the two was invoked exactly once in that step,
\* with its own body as body_self and the other as body_other.
C25_HooksOncePerPair ==
    Stepped =>
        \A p \in BagToSet(After.resolved) :
            \A h \in Before.body[PairBodies(p)[1]].hooks :
                /\ CopiesIn(<<h.id, PairBodies(p)[1], PairBodies(p)[2]>>, After.calls) = 1
                /\ \A g \in Before.body[PairBodies(p)[2]].hooks :
                      CopiesIn(<<g.id, PairBodies(p)[2], PairBodies(p)[1]>>, After.calls) = 1

Regular(c) == phys.new.coll[c].kind = "regular"

\* C27: in a step of the system with colliders, no impulse is applied and no
\* collision hook is run for a pair with a trigger in it; every hook of the
\* trigger is called once with each collider that overlaps the trigger; and
\* when only triggers overlap anything, no velocity changes unless a trigger
\* hook writes one.
C27_TriggerNeverBounces ==
    (Stepped /\ IsNew) =>
        /\ After.error = "none"
        /\ \A i \in BagToSet(After.impulses) : Regular(i[2][1]) /\ Regular(i[2][2])
        /\ \A p \in BagToSet(After.resolved) : Regular(p[1]) /\ Regular(p[2])
        /\ \A t \in Triggers : \A c \in DOMAIN Before.coll \ {t} : \A h \in Before.coll[t].hooks :
              CopiesIn(<<h.id, t, c>>, After.reports) = IF Overlaps(Before, t, c) THEN 1 ELSE 0
        /\ (TriggerQuiet /\ ~OverlapsOld(Before, 1, 2)) => SameVelocities /\ After.calls = EmptyBag

\* A trigger overlapped the colliders of two moving bodies that did not
\* overlap each other: its hook was called for each, nothing bounced.
C27_Witness ==
    /\ Stepped /\ IsNew /\ TriggerQuiet
    /\ ~OverlapsOld(Before, 1, 2)
    /\ Velocity(Before, 1) # <<Zero, Zero>> /\ Velocity(Before, 2) # <<Zero, Zero>>
    /\ \E t \in Triggers : \E c \in DOMAIN Before.coll : Regular(c) /\ Overlaps(Before, t, c)
    /\ After.reports # EmptyBag
    /\ After.impulses = EmptyBag /\ After.calls = EmptyBag
    /\ SameVelocities

\* C28: in every step every live body moves once, by the velocity it has
\* when the step returns (hooks included) times delta_time.
C28_IntegrationAfterHooks ==
    Stepped =>
        \A b \in After.bodies :
            /\ After.body[b].x = RAdd(Before.body[b].x, RMul(After.body[b].vx, phys.dt))
            /\ After.body[b].y = RAdd(Before.body[b].y, RMul(After.body[b].vy, phys.dt))
            /\ CopiesIn(b, After.moves) = 1

\* The zone's world has taken a step; whether a collider overlapped the zone
\* at the start of the last step, and at the start of the one before.
ZoneStepped == phys.phase = "trigger" /\ phys.frames >= 1
OverlapsNow(c) == Overlaps(phys.before, Zone, c)
OverlappedBefore(c) == phys.frames >= 2 /\ Overlaps(phys.before2, Zone, c)
Others == DOMAIN phys.sys.coll \ {Zone}
Expected(h, when) == IF h \in phys.firedSub /\ when THEN 1 ELSE 0

EntityJustDestroyed == phys.phase = "life" /\ phys.lastOp = <<"game_object.destroy", TRUE>>
PartsOf(kind) == {p \in DOMAIN phys.parts : phys.parts[p].kind = kind}

\* C29: when the call that destroys an entity returns, the entity's body is
\* destroyed, destroy() has been entered on every collider and every
\* trigger, none of them is in the system's sets of bodies and circle
\* colliders, and the collider set of the body is empty.
C29_EntityDestroysParts ==
    EntityJustDestroyed =>
        /\ phys.error = "none"
        /\ \A b \in PartsOf("body") :
              /\ phys.parts[b].is_destroyed
              /\ b \notin phys.bodies
              /\ phys.parts[b].colliders = {}
        /\ \A c \in PartsOf("regular") : phys.calls[c] >= 1 /\ c \notin phys.circles
        /\ \A t \in PartsOf("trigger") :
              phys.calls[t] >= 1 /\ phys.parts[t].is_destroyed /\ t \notin phys.circles

\* C30: a destroy() entered on a body or collider it had been entered on
\* before raises nothing and leaves the system's sets, the collider sets
\* and the entity's destroy hooks as they were.
C30_SecondDestroyNoOp ==
    phys.phase = "life" => \A s \in phys.second : s[2]

\* The centres of bodies 1 and 2 coincide.
Coincide(s) == <<s.body[1].x, s.body[1].y>> = <<s.body[2].x, s.body[2].y>>

\* C32: when the centres of the two bodies coincide, the step raises no
\* error, applies no impulse and invokes no collision hook, and no velocity
\* changes unless a trigger hook writes one.
C32_CoincidentSkipped ==
    (Stepped /\ Coincide(Before)) =>
        /\ After.error = "none"
        /\ After.impulses = EmptyBag
        /\ After.resolved = EmptyBag
        /\ After.calls = EmptyBag
        /\ TriggerQuiet => SameVelocities

\* Two bodies of finite mass at the same place, with different velocities,
\* went through a step of physics/physics.py and were moved by it.
C32_Witness ==
    /\ Stepped /\ IsNew /\ Coincide(Before)
    /\ FiniteMass(Before, 1) /\ FiniteMass(Before, 2)
    /\ Velocity(Before, 1) # Velocity(Before, 2)
    /\ After.error = "none"
    /\ SameVelocities
    /\ After.moves # EmptyBag

\* C34: when two overlapping, approaching bodies both have infinite mass,
\* the step raises no error and, no hook writing a velocity, leaves both
\* velocities as they were.
C34_InfiniteMassesNoError ==
    (/\ Stepped /\ Quiet
     /\ ~FiniteMass(Before, 1) /\ ~FiniteMass(Before, 2)
     /\ BodiesOverlap(Before) /\ RLess(VDotD(Before), Zero)) =>
        /\ After.error = "none"
        /\ SameVelocities

\* The pairs of circle colliders of s that overlap, lower collider first.
OverlappingIn(s) ==
    {p \in s.circles \X s.circles :
        p[1] < p[2] /\ AabbIntersects(s, p[1], p[2]) /\ Overlaps(s, p[1], p[2])}

Place(s, b) == <<s.body[b].x, s.body[b].y>>

\* Where body b is after a step of phys.dt that began in s and gave b the
\* velocity it has in r.
PlaceAfter(s, r, b) ==
    <<RAdd(s.body[b].x, RMul(r.body[b].vx, phys.dt)), RAdd(s.body[b].y, RMul(r.body[b].vy, phys.dt))>>

\* C31: when a collision hook or a trigger hook destroyed a GameObject during
\* a step of physics/physics.py, the step ended without an exception, the
\* loop came to every overlapping pair of the step exactly once and every
\* trigger hook of such a pair was run for it, the body of the destroyed
\* GameObject was not moved, and every other live body was moved.
C31_DestroyInHook ==
    (Stepped /\ IsNew /\ After.kills # {}) =>
        /\ After.error = "none"
        /\ \A p \in OverlappingIn(Before) :
              /\ CopiesIn(p, After.visited) + CopiesIn(<<p[2], p[1]>>, After.visited) = 1
              /\ \A t \in {p[1], p[2]} : \A o \in {p[1], p[2]} \ {t} :
                    Before.coll[t].kind = "trigger" =>
                        \A h \in Before.coll[t].hooks : CopiesIn(<<h.id, t, o>>, After.reports) = 1
        /\ BagCardinality(After.visited) = Cardinality(OverlappingIn(Before))
        /\ \A b \in After.kills :
              /\ b \notin After.bodies
              /\ ~BagIn(b, After.moves)
              /\ Place(After, b) = Place(Before, b)
        /\ \A b \in Before.bodies \ After.kills :
              /\ CopiesIn(b, After.moves) = 1
              /\ Place(After, b) = PlaceAfter(Before, After, b)

\* The destroy hook of body 1 ran for two pairs of the step: the second
\* pair was processed after the GameObject was destroyed; the step went on
\* to move body 2 and left body 1 where it was.
C31_Witness ==
    /\ Stepped /\ IsNew
    /\ After.kills = {1}
    /\ After.error = "none"
    /\ CopiesIn(<<2, 1, 2>>, After.calls) = 2
    /\ After.reports # EmptyBag
    /\ Velocity(After, 1) # <<Zero, Zero>>
    /\ Place(After, 1) = Place(Before, 1)
    /\ Place(After, 2) # Place(Before, 2)

\* A collision hook with the effect "add" was run in the step.
AddRan ==
    \E b \in DOMAIN Before.body : \E h \in Before.body[b].hooks : \E o \in DOMAIN Before.body :
        h.effect = "add" /\ BagIn(<<h.id, b, o>>, After.calls)

\* How many pairs of the step's resolved pairs are pairs of the bodies b and o.
ResolvedBetween(b, o) ==
    LET BodyOf(c) == IF IsNew THEN After.coll[c].body ELSE c
        Ps == {p \in BagToSet(After.resolved) : {BodyOf(p[1]), BodyOf(p[2])} = {b, o}}
        RECURSIVE Sum(_)
        Sum(S) == IF S = {} THEN 0
                  ELSE LET p == CHOOSE q \in S : TRUE IN CopiesIn(p, After.resolved) + Sum(S \ {p})
    IN  Sum(Ps)

\* C33: when a collision hook registered one more hook on its own body during
\* a step, the step ended without an exception, every hook registered before
\* the step ran once for each resolved pair of its body, the new hook is
\* registered and it did not run in this step.
C33_HookAddsHook ==
    (Stepped /\ AddRan) =>
        /\ After.error = "none"
        /\ \A b \in DOMAIN Before.body : \A o \in DOMAIN Before.body \ {b} :
              /\ \A h \in Before.body[b].hooks :
                    CopiesIn(<<h.id, b, o>>, After.calls) = ResolvedBetween(b, o)
              /\ AddedHook \notin Before.body[b].hooks => ~BagIn(<<AddedHook.id, b, o>>, After.calls)
        /\ AddedHook \in After.body[1].hooks

\* C40: a step of physics/physics.py that began with no circle collider in
\* the system ended without an exception and moved every live body.
C40_NoColliders ==
    (Stepped /\ IsNew /\ Before.circles = {}) =>
        /\ After.error = "none"
        /\ \A b \in Before.bodies : Place(After, b) = PlaceAfter(Before, After, b)

\* C36: in every state the coroutine holds one subscription to the updates of
\* its GameObject if it is neither suspended nor waiting on a wait
\* instruction, and none otherwise; the list an update of the GameObject
\* runs holds the coroutine's hook at most once, and no update of the
\* GameObject advances the generator by more than one slice.
C36_SubscriptionInvariant ==
    /\ Count(listeners[co.obj]["update"], CoFn) =
            (IF ~co.isSuspended /\ ~co.isYielding THEN 1 ELSE 0)
    /\ \A f \in Frames : (f.op = "run" /\ f.e = co.obj) =>
            /\ Count(RunList(f), CoFn) <= 1
            /\ co.steps <= f.co0.steps + 1

\* C36 witness: the coroutine was suspended while it waited, the resume
\* callback of the wait was invoked, and the coroutine, suspended and no
\* longer waiting, holds no subscription.
C36_Witness ==
    /\ Idle
    /\ co.started
    /\ co.wait # None
    /\ resumes[co.wait].called
    /\ co.isSuspended
    /\ ~co.isYielding
    /\ ~co.isDone
    /\ Count(listeners[co.obj]["update"], CoFn) = 0

\* C37: once the resume callback of a wait was invoked, a coroutine whose
\* last call of start() came after its last call of suspend(), the calls made
\* during the wait included, is not suspended and is subscribed to the
\* updates of its GameObject, so that the next update runs its next slice.
C37_StartNotLost ==
    (/\ co.wait # None
     /\ resumes[co.wait].called
     /\ ~co.isYielding
     /\ ~co.isDone
     /\ co.lastCall = "start") =>
        /\ ~co.isSuspended
        /\ Count(listeners[co.obj]["update"], CoFn) = 1

\* C38: a destroy hook subscribed to a GameObject that was already destroyed
\* (its destroy hooks running or run), by on_destroy or by the set_parent of
\* a child, is in no list that a destroy() runs, so it is never invoked and
\* the child is not destroyed through it; and the destroy hooks of a
\* GameObject are not run a second time.
C38_LateHookNeverRuns ==
    /\ \A f \in Frames : f.op = "destroy" =>
            \A j \in 1..Len(RunList(f)) : ~closures[RunList(f)[j].sub].late
    /\ \A e \in 1..created : runs[e] <= 1

\* C38 witness: the parent was destroyed, then set_parent bound a child to
\* it; the child's destroy sits in the parent's list and the child is alive.
C38_Witness ==
    /\ Idle
    /\ \E c \in 1..created :
            /\ parentOf[c] # None
            /\ parentOf[c] # c
            /\ isDestroyed[parentOf[c]]
            /\ closures[removeParentHook[c]].late
            /\ Count(listeners[parentOf[c]]["destroy"], DestroyFn(c)) = 1
            /\ ~isDestroyed[c]
            /\ c \in live

\* The children of p by set_parent links in effect; with strict, only by
\* links made while p was not destroyed.
Links(p, strict) ==
    {c \in Children(p) : strict => ~closures[removeParentHook[c]].late}

\* The GameObjects reached from those of S along such links in up to n steps.
RECURSIVE ReachFrom(_, _, _)
ReachFrom(S, n, strict) ==
    IF n = 0 THEN S
    ELSE ReachFrom(S \cup UNION {Links(p, strict) : p \in S}, n - 1, strict)

\* The GameObjects on the cycles of such links through e.
CycleOf(e, strict) ==
    LET D == ReachFrom(Links(e, strict), MaxObjects, strict)
    IN  IF e \in D
        THEN {c \in D : e \in ReachFrom(Links(c, strict), MaxObjects, strict)}
        ELSE {}

\* C39 as stated: in every state in which a destroy() called on a GameObject
\* has returned (every state between calls in which it is destroyed is one:
\* destroy() called again returns at once and changes nothing), every
\* GameObject on a cycle of set_parent links through it is destroyed, its
\* destroy hooks run once.
C39_AsStated ==
    Idle => \A e \in 1..created : isDestroyed[e] =>
                \A c \in CycleOf(e, FALSE) : isDestroyed[c] /\ runs[c] = 1

\* The same for the cycles of links made while the parent was not destroyed.
CycleDone ==
    Idle => \A e \in 1..created : isDestroyed[e] =>
                \A c \in CycleOf(e, TRUE) :
                    isDestroyed[c] /\ runs[c] = 1 /\ c \notin live \cup liveM

\* C39 amended: with set_parent links that form cycles, a destroy() that was
\* called returns; no destroy() is nested deeper than there are GameObjects,
\* nothing is raised, the destroy hooks of a GameObject run once if it is
\* destroyed, and once destroy() of a GameObject has returned every
\* GameObject on a cycle through it whose links were all made while their
\* parents were not destroyed is destroyed and in no live set.
C39_CycleDestroyTerminates ==
    /\ [](CycleDone /\ Len(stack) <= created /\ error = "none"
           /\ \A e \in 1..created : runs[e] = IF isDestroyed[e] THEN 1 ELSE 0)
    /\ (stack # <<>>) ~> (stack = <<>>)

\* C39 witness: two GameObjects are each other's parent, destroy() of one
\* returned, and both are destroyed, their hooks run once.
C39_Witness ==
    /\ Idle
    /\ created >= 2
    /\ parentOf[1] = 2 /\ parentOf[2] = 1
    /\ CycleOf(1, TRUE) = {1, 2}
    /\ isDestroyed[1] /\ isDestroyed[2]
    /\ runs[1] = 1 /\ runs[2] = 1
    /\ live \cup liveM = 1..created \ {1, 2}

====
